---- MODULE Spec2Model ----
(***************************************************************************)
(* Data-access layer of the user management backend: the Prisma-backed     *)
(* services for users, roles, sessions, refresh tokens and password reset  *)
(* tokens, modelled as operations on relational tables (sets of rows).     *)
(* Every exported service function is one action; a function whose body    *)
(* is a single store statement is one atomic step.                         *)
(***************************************************************************)
EXTENDS Integers, FiniteSets, Sequences, TLC

\* ---------------------------------------------------------------- bounds
\* Largest value of the wall clock (new Date()) explored.
MaxTime == 1
\* Number of row ids the store hands out in one behaviour.
MaxIds == 2
\* Number of User rows, and of Role rows, created after the seed.
MaxNew == 1
\* Number of signal and beforeExit deliveries in one behaviour.
MaxSignals == 3
\* Largest page and largest limit a listing is asked for.
MaxPage == 2
MaxLimit == 2

\* ---------------------------------------------------------- input domains
Time        == 0..MaxTime
ExpiryTimes == 0..(MaxTime + 1)
Tokens      == {"ta", "tb"}
UserIds     == {"u1", "u2"}
SeedUserIds == UserIds
\* "u0" is a user id that matches no row (a dangling reference).
AnyUserId   == UserIds \cup {"u0"}
RowIds      == 1..MaxIds
\* id arguments a caller may pass: every id the store can hand out, and 0,
\* which matches no row.
AnyRowId    == 0..MaxIds
Emails      == {"e1", "e2", "e3"}
RoleNames   == {"admin", "user", "guest"}
\* The ids the store hands to new User and Role rows, after the seeded ones.
NewUserIds  == {"u" \o ToString(2 + i) : i \in 1..MaxNew}
NewRoleIds  == {"r" \o ToString(2 + i) : i \in 1..MaxNew}
\* "r0" is a role id that matches no row.
AnyRoleId   == {"r0", "r1", "r2"} \cup NewRoleIds
\* Optional fields of the Update...Data interfaces.
OptBool     == {"absent", "true", "false"}
NoTime      == 0 - 1
OptTime     == {NoTime} \cup ExpiryTimes
OptActivity == {NoTime} \cup Time

VARIABLES
    roles,                \* Role table: rows [id, name]
    users,                \* User table: rows [id, email, roleId, isActive, createdAt]
    sessions,             \* Session table
    refreshTokens,        \* RefreshToken table
    passwordResetTokens,  \* PasswordResetToken table
    now,                  \* the wall clock read by new Date()
    nextId,               \* number of row ids handed out so far
    last,                 \* the last completed call: [op, key, res]
    issued,               \* the User and Role ids handed out so far
    retired,              \* history: the tokens on which a retire call has succeeded
    consumer,             \* the two validate-then-retire callers
    deleter,              \* the canDeleteRole-then-deleteRole caller
    sweeper,              \* an expired-sweep between its clock read and its statement
    retirer,              \* a caller that retires the same token twice in a row
    pager,                \* a caller that reads a listing page after page
    createdAt,            \* the createdAt column of the rows with a numeric id
    auditLogs,            \* AuditLog table
    env,                  \* process.env: NODE_ENV and the variables that are set
    proc,                 \* the Node process: connection, signal handlers, exit
    inflight,             \* a call between the queries of its Promise.all
    script,               \* the seed script: the position of its main() promise chain
    consts                \* the constants env.ts exports, evaluated at import

store == <<roles, users, sessions, refreshTokens, passwordResetTokens>>
procs == <<consumer, deleter, sweeper>>
\* State that the token, role and user services neither read nor write.
apart == <<retirer, pager, createdAt, auditLogs, env, proc, inflight, script, consts>>
vars  == <<roles, users, sessions, refreshTokens, passwordResetTokens,
           now, nextId, last, issued, retired, consumer, deleter, sweeper,
           retirer, pager, createdAt, auditLogs, env, proc, inflight, script,
           consts>>

Callers == {"c1", "c2"}

\* ------------------------------------------------------------ store rules
\* A unique column: no row of the table carries the value yet.
TokenFree(table, token) == \A r \in table : r.token # token

\* The referential constraint on userId.
UserExists(userId) == \E u \in users : u.id = userId

\* findUnique({ where: { token } }) / findUnique({ where: { id } })
RowsByToken(table, token) == {r \in table : r.token = token}
RowsById(table, id)       == {r \in table : r.id = id}
RowsOfUser(table, userId) == {r \in table : r.userId = userId}

\* The token of the one row a unique lookup hit.
TokenOf(hit) == (CHOOSE r \in hit : TRUE).token

\* The record of a call that returned res, and of one that threw. key is the
\* userId argument of a per-user operation, the token of the row a revoke or
\* mark-as-used call retired, the token argument of a validity check, the
\* options and filters of a paginated list call, and "-" for every other call.
Call(op, key, res) == [op |-> op, key |-> key, ok |-> TRUE, res |-> res]
Fail(op)           == [op |-> op, key |-> "-", ok |-> FALSE, res |-> "error"]
\* A call on the role directory that threw: key is its role id argument.
Reject(op, key)    == [op |-> op, key |-> key, ok |-> FALSE, res |-> "error"]

\* ------------------------------------------------------------------ clock
\* The wall clock advances between calls.
Tick ==
    /\ now < MaxTime
    /\ now' = now + 1
    /\ last' = Call("tick", "-", "-")
    /\ UNCHANGED <<store, nextId>>

\* No service function reads or writes two token tables, so the tables are
\* explored one at a time: a table's services run while the other two token
\* tables hold no row.
OthersEmpty(table) ==
    /\ (table # "session") => sessions = {}
    /\ (table # "refreshToken") => refreshTokens = {}
    /\ (table # "passwordResetToken") => passwordResetTokens = {}

\* Creates are explored while the id supply lasts.
CanCreate == nextId < MaxIds

\* A create statement is accepted: the token is unique in its table and the
\* userId references a User row.
CreateAccepted(rows, token, userId) ==
    TokenFree(rows, token) /\ UserExists(userId)

\* Column defaults: a new token row is neither revoked nor used, and a new
\* session's lastActivityAt is the time of the insert.
DefaultFlag     == FALSE
DefaultActivity == now

\* ======================================================= refresh tokens
\* The row written by createRefreshToken: isRevoked takes its column default.
NewRefreshToken(id, token, userId, expiresAt) ==
    [id |-> id, token |-> token, userId |-> userId, expiresAt |-> expiresAt,
     isRevoked |-> DefaultFlag]

createRefreshToken(token, userId, expiresAt) ==
    /\ CanCreate
    /\ IF CreateAccepted(refreshTokens, token, userId)
       THEN /\ refreshTokens' = refreshTokens \cup
                   {NewRefreshToken(nextId + 1, token, userId, expiresAt)}
            /\ nextId' = nextId + 1
            /\ last' = Call("createRefreshToken", "-", "ok")
            /\ UNCHANGED <<roles, users, sessions, passwordResetTokens, now>>
       ELSE /\ last' = Fail("createRefreshToken")
            /\ UNCHANGED <<store, now, nextId>>

\* The row after update({ data }): a field absent from data keeps its value.
PatchRefreshToken(r, isRevoked, expiresAt) ==
    [r EXCEPT !.isRevoked = IF isRevoked = "absent" THEN @ ELSE isRevoked = "true",
              !.expiresAt = IF expiresAt = NoTime THEN @ ELSE expiresAt]

updateRefreshToken(id, isRevoked, expiresAt) ==
    IF RowsById(refreshTokens, id) = {}
    THEN /\ last' = Fail("updateRefreshToken")
         /\ UNCHANGED <<store, now, nextId>>
    ELSE /\ refreshTokens' =
                {IF r.id = id THEN PatchRefreshToken(r, isRevoked, expiresAt) ELSE r
                    : r \in refreshTokens}
         /\ last' = Call("updateRefreshToken", "-", "ok")
         /\ UNCHANGED <<roles, users, sessions, passwordResetTokens, now,
                        nextId>>

\* The rows after revoking those in hit.
Revoked(hit) == {[r EXCEPT !.isRevoked = TRUE] : r \in hit}

revokeRefreshToken(id) ==
    LET hit == RowsById(refreshTokens, id) IN
    IF hit = {}
    THEN /\ last' = Fail("revokeRefreshToken")
         /\ UNCHANGED <<store, now, nextId>>
    ELSE /\ refreshTokens' = (refreshTokens \ hit) \cup Revoked(hit)
         /\ last' = Call("revokeRefreshToken", TokenOf(hit), "ok")
         /\ UNCHANGED <<roles, users, sessions, passwordResetTokens, now,
                        nextId>>

revokeRefreshTokenByToken(token) ==
    LET hit == RowsByToken(refreshTokens, token) IN
    IF hit = {}
    THEN /\ last' = Fail("revokeRefreshTokenByToken")
         /\ UNCHANGED <<store, now, nextId>>
    ELSE /\ refreshTokens' = (refreshTokens \ hit) \cup Revoked(hit)
         /\ last' = Call("revokeRefreshTokenByToken", token, "ok")
         /\ UNCHANGED <<roles, users, sessions, passwordResetTokens, now,
                        nextId>>

deleteRefreshToken(id) ==
    LET hit == RowsById(refreshTokens, id) IN
    IF hit = {}
    THEN /\ last' = Fail("deleteRefreshToken")
         /\ UNCHANGED <<store, now, nextId>>
    ELSE /\ refreshTokens' = refreshTokens \ hit
         /\ last' = Call("deleteRefreshToken", "-", "ok")
         /\ UNCHANGED <<roles, users, sessions, passwordResetTokens, now,
                        nextId>>

deleteRefreshTokenByToken(token) ==
    LET hit == RowsByToken(refreshTokens, token) IN
    IF hit = {}
    THEN /\ last' = Fail("deleteRefreshTokenByToken")
         /\ UNCHANGED <<store, now, nextId>>
    ELSE /\ refreshTokens' = refreshTokens \ hit
         /\ last' = Call("deleteRefreshTokenByToken", "-", "ok")
         /\ UNCHANGED <<roles, users, sessions, passwordResetTokens, now,
                        nextId>>

\* deleteAllUserRefreshTokens without its where clause: every row goes.
deleteAllRefreshTokens(userId) ==
    LET hit == refreshTokens IN
    /\ refreshTokens' = refreshTokens \ hit
    /\ last' = Call("deleteAllUserRefreshTokens", userId,
                    Cardinality(RowsOfUser(hit, userId)))
    /\ UNCHANGED <<roles, users, sessions, passwordResetTokens, now, nextId>>

deleteAllUserRefreshTokens(userId) ==
    LET hit == RowsOfUser(refreshTokens, userId) IN
    /\ refreshTokens' = refreshTokens \ hit
    /\ last' = Call("deleteAllUserRefreshTokens", userId, Cardinality(hit))
    /\ UNCHANGED <<roles, users, sessions, passwordResetTokens, now, nextId>>

\* The expiry filter with lte for lt.
StaleRefreshTokens(date) == {r \in refreshTokens : r.expiresAt <= date}

\* The expiry filter with gt for lt.
UnexpiredRefreshTokens(date) == {r \in refreshTokens : r.expiresAt > date}

\* where: { expiresAt: { lt: date } }
ExpiredRefreshTokens(date) == {r \in refreshTokens : r.expiresAt < date}

deleteExpiredRefreshTokens ==
    LET hit == ExpiredRefreshTokens(now) IN
    /\ refreshTokens' = refreshTokens \ hit
    /\ last' = Call("deleteExpiredRefreshTokens", "-", Cardinality(hit))
    /\ UNCHANGED <<roles, users, sessions, passwordResetTokens, now, nextId>>

\* where: { isRevoked: true }
RevokedRefreshTokens == {r \in refreshTokens : r.isRevoked}

deleteRevokedRefreshTokens ==
    LET hit == RevokedRefreshTokens IN
    /\ refreshTokens' = refreshTokens \ hit
    /\ last' = Call("deleteRevokedRefreshTokens", "-", Cardinality(hit))
    /\ UNCHANGED <<roles, users, sessions, passwordResetTokens, now, nextId>>

\* where: { userId, isRevoked: false, expiresAt: { gt: new Date() } }
ActiveUserRefreshTokens(userId) ==
    {r \in refreshTokens : r.userId = userId /\ ~r.isRevoked /\ r.expiresAt > now}

countActiveUserRefreshTokens(userId) ==
    /\ last' = Call("countActiveUserRefreshTokens", userId,
                    Cardinality(ActiveUserRefreshTokens(userId)))
    /\ UNCHANGED <<store, now, nextId>>

\* isRefreshTokenValid with the expiry comparison the wrong way round.
RefreshTokenStale(token) ==
    LET hit == RowsByToken(refreshTokens, token) IN
    IF hit = {} THEN FALSE
    ELSE \E r \in hit : ~r.isRevoked /\ r.expiresAt < now

\* The value isRefreshTokenValid(token) returns in the current state.
RefreshTokenValid(token) ==
    LET hit == RowsByToken(refreshTokens, token) IN
    IF hit = {} THEN FALSE
    ELSE \E r \in hit : ~r.isRevoked /\ r.expiresAt > now

isRefreshTokenValid(token) ==
    /\ last' = Call("isRefreshTokenValid", token, RefreshTokenValid(token))
    /\ UNCHANGED <<store, now, nextId>>

\* ======================================================= password reset tokens
\* The row written by createPasswordResetToken: isUsed takes its column default.
NewPasswordResetToken(id, token, userId, expiresAt) ==
    [id |-> id, token |-> token, userId |-> userId, expiresAt |-> expiresAt,
     isUsed |-> DefaultFlag]

createPasswordResetToken(token, userId, expiresAt) ==
    /\ CanCreate
    /\ IF CreateAccepted(passwordResetTokens, token, userId)
       THEN /\ passwordResetTokens' = passwordResetTokens \cup
                   {NewPasswordResetToken(nextId + 1, token, userId, expiresAt)}
            /\ nextId' = nextId + 1
            /\ last' = Call("createPasswordResetToken", "-", "ok")
            /\ UNCHANGED <<roles, users, sessions, refreshTokens, now>>
       ELSE /\ last' = Fail("createPasswordResetToken")
            /\ UNCHANGED <<store, now, nextId>>

\* The row after update({ data }): a field absent from data keeps its value.
PatchPasswordResetToken(r, isUsed, expiresAt) ==
    [r EXCEPT !.isUsed = IF isUsed = "absent" THEN @ ELSE isUsed = "true",
              !.expiresAt = IF expiresAt = NoTime THEN @ ELSE expiresAt]

updatePasswordResetToken(id, isUsed, expiresAt) ==
    IF RowsById(passwordResetTokens, id) = {}
    THEN /\ last' = Fail("updatePasswordResetToken")
         /\ UNCHANGED <<store, now, nextId>>
    ELSE /\ passwordResetTokens' =
                {IF r.id = id THEN PatchPasswordResetToken(r, isUsed, expiresAt) ELSE r
                    : r \in passwordResetTokens}
         /\ last' = Call("updatePasswordResetToken", "-", "ok")
         /\ UNCHANGED <<roles, users, sessions, refreshTokens, now,
                        nextId>>

\* Marking as used as a toggle of the flag.
Flipped(hit) == {[r EXCEPT !.isUsed = ~@] : r \in hit}

\* The rows after marking as used those in hit.
Used(hit) == {[r EXCEPT !.isUsed = TRUE] : r \in hit}

markPasswordResetTokenAsUsed(id) ==
    LET hit == RowsById(passwordResetTokens, id) IN
    IF hit = {}
    THEN /\ last' = Fail("markPasswordResetTokenAsUsed")
         /\ UNCHANGED <<store, now, nextId>>
    ELSE /\ passwordResetTokens' = (passwordResetTokens \ hit) \cup Used(hit)
         /\ last' = Call("markPasswordResetTokenAsUsed", TokenOf(hit), "ok")
         /\ UNCHANGED <<roles, users, sessions, refreshTokens, now,
                        nextId>>

markPasswordResetTokenAsUsedByToken(token) ==
    LET hit == RowsByToken(passwordResetTokens, token) IN
    IF hit = {}
    THEN /\ last' = Fail("markPasswordResetTokenAsUsedByToken")
         /\ UNCHANGED <<store, now, nextId>>
    ELSE /\ passwordResetTokens' = (passwordResetTokens \ hit) \cup Used(hit)
         /\ last' = Call("markPasswordResetTokenAsUsedByToken", token, "ok")
         /\ UNCHANGED <<roles, users, sessions, refreshTokens, now,
                        nextId>>

deletePasswordResetToken(id) ==
    LET hit == RowsById(passwordResetTokens, id) IN
    IF hit = {}
    THEN /\ last' = Fail("deletePasswordResetToken")
         /\ UNCHANGED <<store, now, nextId>>
    ELSE /\ passwordResetTokens' = passwordResetTokens \ hit
         /\ last' = Call("deletePasswordResetToken", "-", "ok")
         /\ UNCHANGED <<roles, users, sessions, refreshTokens, now,
                        nextId>>

deletePasswordResetTokenByToken(token) ==
    LET hit == RowsByToken(passwordResetTokens, token) IN
    IF hit = {}
    THEN /\ last' = Fail("deletePasswordResetTokenByToken")
         /\ UNCHANGED <<store, now, nextId>>
    ELSE /\ passwordResetTokens' = passwordResetTokens \ hit
         /\ last' = Call("deletePasswordResetTokenByToken", "-", "ok")
         /\ UNCHANGED <<roles, users, sessions, refreshTokens, now,
                        nextId>>

deleteAllUserPasswordResetTokens(userId) ==
    LET hit == RowsOfUser(passwordResetTokens, userId) IN
    /\ passwordResetTokens' = passwordResetTokens \ hit
    /\ last' = Call("deleteAllUserPasswordResetTokens", userId, Cardinality(hit))
    /\ UNCHANGED <<roles, users, sessions, refreshTokens, now, nextId>>

\* where: { expiresAt: { lt: date } }
ExpiredPasswordResetTokens(date) == {r \in passwordResetTokens : r.expiresAt < date}

deleteExpiredPasswordResetTokens ==
    LET hit == ExpiredPasswordResetTokens(now) IN
    /\ passwordResetTokens' = passwordResetTokens \ hit
    /\ last' = Call("deleteExpiredPasswordResetTokens", "-", Cardinality(hit))
    /\ UNCHANGED <<roles, users, sessions, refreshTokens, now, nextId>>

\* where: { isUsed: true }
UsedPasswordResetTokens == {r \in passwordResetTokens : r.isUsed}

deleteUsedPasswordResetTokens ==
    LET hit == UsedPasswordResetTokens IN
    /\ passwordResetTokens' = passwordResetTokens \ hit
    /\ last' = Call("deleteUsedPasswordResetTokens", "-", Cardinality(hit))
    /\ UNCHANGED <<roles, users, sessions, refreshTokens, now, nextId>>

\* where: { userId, isUsed: false, expiresAt: { gt: new Date() } }
ActiveUserPasswordResetTokens(userId) ==
    {r \in passwordResetTokens : r.userId = userId /\ ~r.isUsed /\ r.expiresAt > now}

countActiveUserPasswordResetTokens(userId) ==
    /\ last' = Call("countActiveUserPasswordResetTokens", userId,
                    Cardinality(ActiveUserPasswordResetTokens(userId)))
    /\ UNCHANGED <<store, now, nextId>>

\* isPasswordResetTokenValid without its expiry comparison.
PasswordResetTokenUnused(token) ==
    LET hit == RowsByToken(passwordResetTokens, token) IN
    IF hit = {} THEN FALSE
    ELSE \E r \in hit : ~r.isUsed

\* The value isPasswordResetTokenValid(token) returns in the current state.
PasswordResetTokenValid(token) ==
    LET hit == RowsByToken(passwordResetTokens, token) IN
    IF hit = {} THEN FALSE
    ELSE \E r \in hit : ~r.isUsed /\ r.expiresAt > now

isPasswordResetTokenValid(token) ==
    /\ last' = Call("isPasswordResetTokenValid", token, PasswordResetTokenValid(token))
    /\ UNCHANGED <<store, now, nextId>>

\* invalidateAllUserPasswordResetTokens flagging only the rows that are already
\* expired (the expiry filter the wrong way round).
invalidateOnlyExpired(userId) ==
    LET hit == {r \in RowsOfUser(passwordResetTokens, userId) : r.expiresAt < now} IN
    /\ passwordResetTokens' = (passwordResetTokens \ hit) \cup Used(hit)
    /\ last' = Call("invalidateAllUserPasswordResetTokens", userId, Cardinality(hit))
    /\ UNCHANGED <<roles, users, sessions, refreshTokens, now, nextId>>

\* updateMany({ where: { userId }, data: { isUsed: true } })
invalidateAllUserPasswordResetTokens(userId) ==
    LET hit == RowsOfUser(passwordResetTokens, userId) IN
    /\ passwordResetTokens' = (passwordResetTokens \ hit) \cup Used(hit)
    /\ last' = Call("invalidateAllUserPasswordResetTokens", userId, Cardinality(hit))
    /\ UNCHANGED <<roles, users, sessions, refreshTokens, now, nextId>>

\* ============================================================= sessions
\* The row written by createSession: lastActivityAt takes its column default,
\* the time of the insert.
NewSession(id, token, userId, expiresAt) ==
    [id |-> id, token |-> token, userId |-> userId, expiresAt |-> expiresAt,
     lastActivityAt |-> DefaultActivity]

createSession(token, userId, expiresAt) ==
    /\ CanCreate
    /\ IF CreateAccepted(sessions, token, userId)
       THEN /\ sessions' = sessions \cup
                   {NewSession(nextId + 1, token, userId, expiresAt)}
            /\ nextId' = nextId + 1
            /\ last' = Call("createSession", "-", "ok")
            /\ UNCHANGED <<roles, users, refreshTokens, passwordResetTokens, now>>
       ELSE /\ last' = Fail("createSession")
            /\ UNCHANGED <<store, now, nextId>>

\* The row after update({ data }): a field absent from data keeps its value.
PatchSession(r, lastActivityAt, expiresAt) ==
    [r EXCEPT !.lastActivityAt = IF lastActivityAt = NoTime THEN @ ELSE lastActivityAt,
              !.expiresAt = IF expiresAt = NoTime THEN @ ELSE expiresAt]

updateSession(id, lastActivityAt, expiresAt) ==
    IF RowsById(sessions, id) = {}
    THEN /\ last' = Fail("updateSession")
         /\ UNCHANGED <<store, now, nextId>>
    ELSE /\ sessions' =
                {IF r.id = id THEN PatchSession(r, lastActivityAt, expiresAt) ELSE r
                    : r \in sessions}
         /\ last' = Call("updateSession", "-", "ok")
         /\ UNCHANGED <<roles, users, refreshTokens, passwordResetTokens, now,
                        nextId>>

\* updateSessionActivity as an updateMany: no row hit is no error.
updateSessionActivityIfAny(token) ==
    LET hit == RowsByToken(sessions, token) IN
    /\ sessions' = (sessions \ hit) \cup {[r EXCEPT !.lastActivityAt = now] : r \in hit}
    /\ last' = Call("updateSessionActivity", "-", "ok")
    /\ UNCHANGED <<roles, users, refreshTokens, passwordResetTokens, now, nextId>>

updateSessionActivity(token) ==
    LET hit == RowsByToken(sessions, token) IN
    IF hit = {}
    THEN /\ last' = Fail("updateSessionActivity")
         /\ UNCHANGED <<store, now, nextId>>
    ELSE /\ sessions' = (sessions \ hit) \cup
                {[r EXCEPT !.lastActivityAt = now] : r \in hit}
         /\ last' = Call("updateSessionActivity", "-", "ok")
         /\ UNCHANGED <<roles, users, refreshTokens, passwordResetTokens, now,
                        nextId>>

deleteSession(id) ==
    LET hit == RowsById(sessions, id) IN
    IF hit = {}
    THEN /\ last' = Fail("deleteSession")
         /\ UNCHANGED <<store, now, nextId>>
    ELSE /\ sessions' = sessions \ hit
         /\ last' = Call("deleteSession", "-", "ok")
         /\ UNCHANGED <<roles, users, refreshTokens, passwordResetTokens, now,
                        nextId>>

deleteSessionByToken(token) ==
    LET hit == RowsByToken(sessions, token) IN
    IF hit = {}
    THEN /\ last' = Fail("deleteSessionByToken")
         /\ UNCHANGED <<store, now, nextId>>
    ELSE /\ sessions' = sessions \ hit
         /\ last' = Call("deleteSessionByToken", "-", "ok")
         /\ UNCHANGED <<roles, users, refreshTokens, passwordResetTokens, now,
                        nextId>>

deleteAllUserSessions(userId) ==
    LET hit == RowsOfUser(sessions, userId) IN
    /\ sessions' = sessions \ hit
    /\ last' = Call("deleteAllUserSessions", userId, Cardinality(hit))
    /\ UNCHANGED <<roles, users, refreshTokens, passwordResetTokens, now, nextId>>

\* where: { expiresAt: { lt: date } }
ExpiredSessions(date) == {r \in sessions : r.expiresAt < date}

deleteExpiredSessions ==
    LET hit == ExpiredSessions(now) IN
    /\ sessions' = sessions \ hit
    /\ last' = Call("deleteExpiredSessions", "-", Cardinality(hit))
    /\ UNCHANGED <<roles, users, refreshTokens, passwordResetTokens, now, nextId>>

\* where: { userId, expiresAt: { gt: new Date() } }
ActiveUserSessions(userId) ==
    {r \in sessions : r.userId = userId /\ r.expiresAt > now}

countActiveUserSessions(userId) ==
    /\ last' = Call("countActiveUserSessions", userId,
                    Cardinality(ActiveUserSessions(userId)))
    /\ UNCHANGED <<store, now, nextId>>

\* ===================================================== users and roles
\* The next id of the pool that was never handed out.
Fresh(pool) == CHOOSE id \in pool \ issued : TRUE

\* The referential constraint on roleId and the unique columns.
RoleExists(roleId) == \E r \in roles : r.id = roleId
EmailFree(email)   == \A u \in users : u.email # email
NameFree(name)     == \A r \in roles : r.name # name

\* prisma.user.count({ where: { roleId: id } })
UsersWithRole(id) == {u \in users : u.roleId = id}

\* A Role row that no referential action lets go.
NeverReferenced(id) == FALSE

\* The User -> Role relation restricts the delete of a referenced Role.
RoleReferenced(id) == UsersWithRole(id) # {}

\* The credential tables hold no row of the user.
NoCredentials(userId) ==
    RowsOfUser(sessions, userId) \cup RowsOfUser(refreshTokens, userId)
        \cup RowsOfUser(passwordResetTokens, userId) = {}

createRole(name) ==
    /\ NewRoleIds \ issued # {}
    /\ IF NameFree(name)
       THEN /\ roles' = roles \cup {[id |-> Fresh(NewRoleIds), name |-> name]}
            /\ issued' = issued \cup {Fresh(NewRoleIds)}
            /\ last' = Call("createRole", Fresh(NewRoleIds), "ok")
            /\ UNCHANGED <<users, sessions, refreshTokens, passwordResetTokens,
                           now, nextId>>
       ELSE /\ last' = Fail("createRole")
            /\ UNCHANGED <<store, now, nextId, issued>>

\* deleteRole when the relation cascades: the role goes with its users.
deleteRoleCascade(id) ==
    IF RowsById(roles, id) = {}
    THEN /\ last' = Reject("deleteRole", id)
         /\ UNCHANGED <<store, now, nextId, issued>>
    ELSE /\ roles' = roles \ RowsById(roles, id)
         /\ users' = users \ UsersWithRole(id)
         /\ last' = Call("deleteRole", id, "ok")
         /\ UNCHANGED <<sessions, refreshTokens, passwordResetTokens,
                        now, nextId, issued>>

deleteRole(id) ==
    IF RowsById(roles, id) = {} \/ RoleReferenced(id)
    THEN /\ last' = Reject("deleteRole", id)
         /\ UNCHANGED <<store, now, nextId, issued>>
    ELSE /\ roles' = roles \ RowsById(roles, id)
         /\ last' = Call("deleteRole", id, "ok")
         /\ UNCHANGED <<users, sessions, refreshTokens, passwordResetTokens,
                        now, nextId, issued>>

canDeleteRole(id) ==
    /\ last' = Call("canDeleteRole", id, Cardinality(UsersWithRole(id)) = 0)
    /\ UNCHANGED <<store, now, nextId, issued>>

\* The row written by createUser: isActive takes its column default.
NewUser(id, email, roleId) ==
    [id |-> id, email |-> email, roleId |-> roleId, isActive |-> TRUE,
     createdAt |-> now]

createUser(email, roleId) ==
    /\ NewUserIds \ issued # {}
    /\ IF EmailFree(email) /\ RoleExists(roleId)
       THEN /\ users' = users \cup {NewUser(Fresh(NewUserIds), email, roleId)}
            /\ issued' = issued \cup {Fresh(NewUserIds)}
            /\ last' = Call("createUser", roleId, "ok")
            /\ UNCHANGED <<roles, sessions, refreshTokens, passwordResetTokens,
                           now, nextId>>
       ELSE /\ last' = Fail("createUser")
            /\ UNCHANGED <<store, now, nextId, issued>>

\* Explored for users without credential rows.
hardDeleteUser(id) ==
    /\ NoCredentials(id)
    /\ IF RowsById(users, id) = {}
       THEN /\ last' = Fail("hardDeleteUser")
            /\ UNCHANGED <<store, now, nextId, issued>>
       ELSE /\ users' = users \ RowsById(users, id)
            /\ last' = Call("hardDeleteUser", "-", "ok")
            /\ UNCHANGED <<roles, sessions, refreshTokens, passwordResetTokens,
                           now, nextId, issued>>

\* ============================================================ audit log
\* Inputs of CreateAuditLogData; oldValue? and newValue? are "absent" when
\* the caller leaves them out.
AuditActions == {"LOGIN", "UPDATE"}
EntityTypes  == {"User"}
AuditValues  == {"absent", "v1"}

\* The createdAt column is written by the insert (its default is the time of
\* the insert); it is kept in createdAt, by row id.
Stamp ==
    createdAt' = IF nextId' # nextId
                 THEN [createdAt EXCEPT ![nextId'] = now]
                 ELSE createdAt

createAuditLog(action, entityType, entityId, userId, oldValue, newValue) ==
    /\ CanCreate
    /\ IF UserExists(userId)
       THEN /\ auditLogs' = auditLogs \cup
                   {[id |-> nextId + 1, action |-> action, entityType |-> entityType,
                     entityId |-> entityId, userId |-> userId,
                     oldValue |-> oldValue, newValue |-> newValue]}
            /\ nextId' = nextId + 1
            /\ last' = Call("createAuditLog", "-", "ok")
            /\ UNCHANGED <<store, now>>
       ELSE /\ last' = Fail("createAuditLog")
            /\ UNCHANGED <<store, now, nextId, auditLogs>>

\* logUserAction passes its arguments on to createAuditLog.
logUserAction(action, entityType, entityId, userId, oldValue, newValue) ==
    createAuditLog(action, entityType, entityId, userId, oldValue, newValue)

\* update({ where: { id }, data }): a field absent from data keeps its value.
updateAuditLog(id, oldValue, newValue) ==
    IF RowsById(auditLogs, id) = {}
    THEN /\ last' = Fail("updateAuditLog")
         /\ UNCHANGED <<store, now, nextId, auditLogs>>
    ELSE /\ auditLogs' =
                {IF r.id = id
                 THEN [r EXCEPT !.oldValue = IF oldValue = "absent" THEN @ ELSE oldValue,
                                !.newValue = IF newValue = "absent" THEN @ ELSE newValue]
                 ELSE r : r \in auditLogs}
         /\ last' = Call("updateAuditLog", "-", "ok")
         /\ UNCHANGED <<store, now, nextId>>

deleteAuditLog(id) ==
    LET hit == RowsById(auditLogs, id) IN
    IF hit = {}
    THEN /\ last' = Fail("deleteAuditLog")
         /\ UNCHANGED <<store, now, nextId, auditLogs>>
    ELSE /\ auditLogs' = auditLogs \ hit
         /\ last' = Call("deleteAuditLog", "-", "ok")
         /\ UNCHANGED <<store, now, nextId>>

deleteAllUserAuditLogs(userId) ==
    LET hit == RowsOfUser(auditLogs, userId) IN
    /\ auditLogs' = auditLogs \ hit
    /\ last' = Call("deleteAllUserAuditLogs", userId, Cardinality(hit))
    /\ UNCHANGED <<store, now, nextId>>

\* where: { createdAt: { lt: olderThan } }
deleteOldAuditLogs(olderThan) ==
    LET hit == {r \in auditLogs : createdAt[r.id] < olderThan} IN
    /\ auditLogs' = auditLogs \ hit
    /\ last' = Call("deleteOldAuditLogs", "-", Cardinality(hit))
    /\ UNCHANGED <<store, now, nextId>>

countUserAuditLogs(userId) ==
    /\ last' = Call("countUserAuditLogs", userId,
                    Cardinality(RowsOfUser(auditLogs, userId)))
    /\ UNCHANGED <<store, now, nextId, auditLogs>>

\* ============================================================== listings
\* findMany({ where, orderBy: { column: 'desc' } }): the matching rows in
\* descending order of the column. Rows with equal values come in an order
\* the store chooses, query by query. stamp maps each row to its value.
InSomeOrder(rows) ==
    {s \in [1..Cardinality(rows) -> rows] :
        \A i, j \in 1..Cardinality(rows) : i # j => s[i] # s[j]}

Descending(rows, stamp) ==
    {s \in InSomeOrder(rows) :
        \A i \in 1..(Cardinality(rows) - 1) : stamp[s[i]] >= stamp[s[i + 1]]}

\* The id in place of the sort column.
ById(rows)             == [r \in rows |-> r.id]
\* The orderBy columns: createdAt, and lastActivityAt for sessions.
ByCreatedAt(rows)      == [r \in rows |-> createdAt[r.id]]
ByLastActivityAt(rows) == [r \in rows |-> r.lastActivityAt]
ByUserCreatedAt(rows)  == [r \in rows |-> r.createdAt]

Min(a, b) == IF a < b THEN a ELSE b

\* skip and take of findMany.
Skip(s, n) == IF n >= Len(s) THEN << >> ELSE SubSeq(s, n + 1, Len(s))
Take(s, n) == SubSeq(s, 1, Min(n, Len(s)))
Ids(s)     == [i \in 1..Len(s) |-> s[i].id]

\* Math.floor in place of Math.ceil.
Floor(total, limit) == total \div limit

\* Math.ceil(total / limit), for limit >= 1
Ceil(total, limit) == (total + limit - 1) \div limit

\* The value a paginated list function returns: skip = (page - 1) * limit,
\* the page of the ordered rows, and the pagination envelope.
Listing(ordered, page, limit, total) ==
    [items |-> Ids(Take(Skip(ordered, (page - 1) * limit), limit)),
     pagination |-> [page |-> page, limit |-> limit, total |-> total,
                     pages |-> Ceil(total, limit)]]

Pages  == 1..MaxPage
Limits == 1..MaxLimit
\* filters?.userId: "absent" stands for undefined and for ''.
OptUserId == {"absent", "u1"}

\* where built from filters: isExpired true is expiresAt < now, false is
\* expiresAt >= now.
ExpiryMatches(r, isExpired) ==
    /\ isExpired = "true" => r.expiresAt < now
    /\ isExpired = "false" => r.expiresAt >= now

SessionsWhere(userId, isExpired) ==
    {r \in sessions : /\ userId # "absent" => r.userId = userId
                      /\ ExpiryMatches(r, isExpired)}

getSessions(page, limit, userId, isExpired) ==
    LET where == SessionsWhere(userId, isExpired) IN
    /\ \E ordered \in Descending(where, ByLastActivityAt(where)) :
          last' = Call("getSessions",
                       [page |-> page, limit |-> limit, userId |-> userId, isExpired |-> isExpired],
                       Listing(ordered, page, limit, Cardinality(where)))
    /\ UNCHANGED <<store, now, nextId>>

RefreshTokensWhere(userId, isRevoked, isExpired) ==
    {r \in refreshTokens : /\ userId # "absent" => r.userId = userId
                           /\ isRevoked # "absent" => r.isRevoked = (isRevoked = "true")
                           /\ ExpiryMatches(r, isExpired)}

getRefreshTokens(page, limit, userId, isRevoked, isExpired) ==
    LET where == RefreshTokensWhere(userId, isRevoked, isExpired) IN
    /\ \E ordered \in Descending(where, ByCreatedAt(where)) :
          last' = Call("getRefreshTokens",
                       [page |-> page, limit |-> limit, userId |-> userId,
                        isRevoked |-> isRevoked, isExpired |-> isExpired],
                       Listing(ordered, page, limit, Cardinality(where)))
    /\ UNCHANGED <<store, now, nextId>>

PasswordResetTokensWhere(userId, isUsed, isExpired) ==
    {r \in passwordResetTokens :
        /\ userId # "absent" => r.userId = userId
        /\ isUsed # "absent" => r.isUsed = (isUsed = "true")
        /\ ExpiryMatches(r, isExpired)}

getPasswordResetTokens(page, limit, userId, isUsed, isExpired) ==
    LET where == PasswordResetTokensWhere(userId, isUsed, isExpired) IN
    /\ \E ordered \in Descending(where, ByCreatedAt(where)) :
          last' = Call("getPasswordResetTokens",
                       [page |-> page, limit |-> limit, userId |-> userId,
                        isUsed |-> isUsed, isExpired |-> isExpired],
                       Listing(ordered, page, limit, Cardinality(where)))
    /\ UNCHANGED <<store, now, nextId>>

\* where.createdAt = { gte: dateFrom, lte: dateTo }, each bound when given.
AuditLogsWhere(userId, entityType, entityId, action, dateFrom, dateTo) ==
    {r \in auditLogs :
        /\ userId # "absent" => r.userId = userId
        /\ entityType # "absent" => r.entityType = entityType
        /\ entityId # "absent" => r.entityId = entityId
        /\ action # "absent" => r.action = action
        /\ dateFrom # NoTime => createdAt[r.id] >= dateFrom
        /\ dateTo # NoTime => createdAt[r.id] <= dateTo}

getAuditLogs(page, limit, userId, entityType, entityId, action, dateFrom, dateTo) ==
    LET where == AuditLogsWhere(userId, entityType, entityId, action, dateFrom, dateTo) IN
    /\ \E ordered \in Descending(where, ByCreatedAt(where)) :
          last' = Call("getAuditLogs",
                       [page |-> page, limit |-> limit, userId |-> userId,
                        entityType |-> entityType, entityId |-> entityId,
                        action |-> action, dateFrom |-> dateFrom, dateTo |-> dateTo],
                       Listing(ordered, page, limit, Cardinality(where)))
    /\ UNCHANGED <<store, now, nextId, auditLogs>>

\* filters.search: contains, on the email column (the name columns are not
\* part of the rows). "e" is contained in every email, "e1" in "e1" only.
SearchTerms == {"absent", "e", "e1"}
Contains(text, term) == term = "e" \/ text = term

UsersWhere(isActive, roleId, search) ==
    {u \in users : /\ isActive # "absent" => u.isActive = (isActive = "true")
                   /\ roleId # "absent" => u.roleId = roleId
                   /\ search # "absent" => Contains(u.email, search)}

getUsers(page, limit, isActive, roleId, search) ==
    LET where == UsersWhere(isActive, roleId, search) IN
    /\ \E ordered \in Descending(where, ByUserCreatedAt(where)) :
          last' = Call("getUsers",
                       [page |-> page, limit |-> limit, isActive |-> isActive,
                        roleId |-> roleId, search |-> search],
                       Listing(ordered, page, limit, Cardinality(where)))
    /\ UNCHANGED <<store, now, nextId, issued>>

\* findUnique({ where: { id } }): the row, or null (no row).
findUserById(id) ==
    /\ last' = Call("findUserById", id, RowsById(users, id))
    /\ UNCHANGED <<store, now, nextId, issued>>

\* update({ where: { id }, data }); of UpdateUserData the rows carry isActive.
updateUser(id, isActive) ==
    IF RowsById(users, id) = {}
    THEN /\ last' = Reject("updateUser", id)
         /\ UNCHANGED <<store, now, nextId, issued>>
    ELSE /\ users' = {IF u.id = id /\ isActive # "absent"
                      THEN [u EXCEPT !.isActive = (isActive = "true")]
                      ELSE u : u \in users}
         /\ last' = Call("updateUser", id, "ok")
         /\ UNCHANGED <<roles, sessions, refreshTokens, passwordResetTokens,
                        now, nextId, issued>>

\* deleteUser as a delete of the row.
deleteUserForGood(id) ==
    IF RowsById(users, id) = {}
    THEN /\ last' = Reject("deleteUser", id)
         /\ UNCHANGED <<store, now, nextId, issued>>
    ELSE /\ users' = users \ RowsById(users, id)
         /\ last' = Call("deleteUser", id, "ok")
         /\ UNCHANGED <<roles, sessions, refreshTokens, passwordResetTokens,
                        now, nextId, issued>>

\* update({ where: { id }, data: { isActive: false } })
\* deleteUser when the credentials of the user go with the account.
deleteUserAndCredentials(id) ==
    IF RowsById(users, id) = {}
    THEN /\ last' = Reject("deleteUser", id)
         /\ UNCHANGED <<store, now, nextId, issued>>
    ELSE /\ users' = {IF u.id = id THEN [u EXCEPT !.isActive = FALSE] ELSE u
                        : u \in users}
         /\ sessions' = sessions \ RowsOfUser(sessions, id)
         /\ refreshTokens' = {IF r.userId = id THEN [r EXCEPT !.isRevoked = TRUE] ELSE r
                                : r \in refreshTokens}
         /\ passwordResetTokens' = passwordResetTokens \ RowsOfUser(passwordResetTokens, id)
         /\ last' = Call("deleteUser", id, "ok")
         /\ UNCHANGED <<roles, now, nextId, issued>>

deleteUser(id) ==
    IF RowsById(users, id) = {}
    THEN /\ last' = Reject("deleteUser", id)
         /\ UNCHANGED <<store, now, nextId, issued>>
    ELSE /\ users' = {IF u.id = id THEN [u EXCEPT !.isActive = FALSE] ELSE u
                        : u \in users}
         /\ last' = Call("deleteUser", id, "ok")
         /\ UNCHANGED <<roles, sessions, refreshTokens, passwordResetTokens,
                        now, nextId, issued>>

\* ------------------------------------------------ the lists of one user
\* findMany({ where, orderBy }) without pagination: the ids in order.
getUserSessions(userId) ==
    LET where == RowsOfUser(sessions, userId) IN
    /\ \E ordered \in Descending(where, ByLastActivityAt(where)) :
          last' = Call("getUserSessions", userId, Ids(ordered))
    /\ UNCHANGED <<store, now, nextId>>

getActiveUserSessions(userId) ==
    LET where == ActiveUserSessions(userId) IN
    /\ \E ordered \in Descending(where, ByLastActivityAt(where)) :
          last' = Call("getActiveUserSessions", userId, Ids(ordered))
    /\ UNCHANGED <<store, now, nextId>>

getUserRefreshTokens(userId) ==
    LET where == RowsOfUser(refreshTokens, userId) IN
    /\ \E ordered \in Descending(where, ByCreatedAt(where)) :
          last' = Call("getUserRefreshTokens", userId, Ids(ordered))
    /\ UNCHANGED <<store, now, nextId>>

getActiveUserRefreshTokens(userId) ==
    LET where == ActiveUserRefreshTokens(userId) IN
    /\ \E ordered \in Descending(where, ByCreatedAt(where)) :
          last' = Call("getActiveUserRefreshTokens", userId, Ids(ordered))
    /\ UNCHANGED <<store, now, nextId>>

getUserPasswordResetTokens(userId) ==
    LET where == RowsOfUser(passwordResetTokens, userId) IN
    /\ \E ordered \in Descending(where, ByCreatedAt(where)) :
          last' = Call("getUserPasswordResetTokens", userId, Ids(ordered))
    /\ UNCHANGED <<store, now, nextId>>

getActiveUserPasswordResetTokens(userId) ==
    LET where == ActiveUserPasswordResetTokens(userId) IN
    /\ \E ordered \in Descending(where, ByCreatedAt(where)) :
          last' = Call("getActiveUserPasswordResetTokens", userId, Ids(ordered))
    /\ UNCHANGED <<store, now, nextId>>

\* ============================================================== finders
\* findUnique({ where }): the row, or null when no row matches. The result
\* is the set of rows hit; the empty set stands for null.
findRefreshTokenByToken(token) ==
    /\ last' = Call("findRefreshTokenByToken", token, RowsByToken(refreshTokens, token))
    /\ UNCHANGED <<store, now, nextId>>

findRefreshTokenById(id) ==
    /\ last' = Call("findRefreshTokenById", id, RowsById(refreshTokens, id))
    /\ UNCHANGED <<store, now, nextId>>

findPasswordResetTokenByToken(token) ==
    /\ last' = Call("findPasswordResetTokenByToken", token,
                    RowsByToken(passwordResetTokens, token))
    /\ UNCHANGED <<store, now, nextId>>

findPasswordResetTokenById(id) ==
    /\ last' = Call("findPasswordResetTokenById", id, RowsById(passwordResetTokens, id))
    /\ UNCHANGED <<store, now, nextId>>

findSessionByToken(token) ==
    /\ last' = Call("findSessionByToken", token, RowsByToken(sessions, token))
    /\ UNCHANGED <<store, now, nextId>>

findSessionById(id) ==
    /\ last' = Call("findSessionById", id, RowsById(sessions, id))
    /\ UNCHANGED <<store, now, nextId>>

findUserByEmail(email) ==
    /\ last' = Call("findUserByEmail", email, {u \in users : u.email = email})
    /\ UNCHANGED <<store, now, nextId, issued>>

findRoleByName(name) ==
    /\ last' = Call("findRoleByName", name, {r \in roles : r.name = name})
    /\ UNCHANGED <<store, now, nextId, issued>>

\* ========================================================== environment
\* const requiredVars = [...]
requiredVars == {"DATABASE_URL", "JWT_ACCESS_SECRET", "JWT_REFRESH_SECRET"}

\* A variable of process.env is not defined, the empty string, or a value.
VarStates == {"unset", "empty", "set"}
\* NODE_ENV: not defined, the empty string, or one of these names.
NodeEnvs  == {"unset", "empty", "development", "test", "production", "staging"}
Envs      == [nodeEnv : NodeEnvs, vars : [requiredVars -> VarStates]]

\* The environment of a configured development process.
DefaultEnv == [nodeEnv |-> "development", vars |-> [v \in requiredVars |-> "set"]]

\* requiredVars.filter(varName => !process.env[varName]): undefined and ''
\* are both falsy.
missing == {v \in requiredVars : env.vars[v] \in {"unset", "empty"}}

\* validateEnvironment that throws whenever a variable is missing.
validateStrict ==
    /\ last' = IF missing # {}
               THEN Fail("validateEnvironment")
               ELSE Call("validateEnvironment", "-", "silent")
    /\ UNCHANGED <<store, now, nextId, env>>

\* console.warn when a variable is missing, then throw in production only.
validateEnvironment ==
    /\ last' = IF missing # {} /\ env.nodeEnv = "production"
               THEN Fail("validateEnvironment")
               ELSE Call("validateEnvironment", "-",
                         IF missing # {} THEN "warned" ELSE "silent")
    /\ UNCHANGED <<store, now, nextId, env>>

\* loadEnvironment: dotenv reads .env.<NODE_ENV || 'development'>, or .env
\* when that fails, and defines the variables of the file that process.env
\* does not define yet, NODE_ENV among them; with neither file it throws.
\* found is the file that could be read, defines the required variables it
\* gives a value, nodeEnv the NODE_ENV it gives ("unset": none).
loadEnvironment(found, defines, nodeEnv) ==
    IF found = "none"
    THEN /\ last' = Fail("loadEnvironment")
         /\ UNCHANGED <<store, now, nextId, env>>
    ELSE /\ env' = [env EXCEPT !.vars =
                        [v \in requiredVars |->
                            IF env.vars[v] = "unset" /\ v \in defines
                            THEN "set" ELSE env.vars[v]],
                               !.nodeEnv = IF @ = "unset" THEN nodeEnv ELSE @]
         /\ last' = Call("loadEnvironment", "-", found)
         /\ UNCHANGED <<store, now, nextId>>

\* getCurrentEnvironment: process.env.NODE_ENV || 'development'
getCurrentEnvironment ==
    IF env.nodeEnv \in {"unset", "empty"} THEN "development" ELSE env.nodeEnv

isEnvironment(name) == getCurrentEnvironment = name

\* export const isDevelopment / isProduction / isTest: evaluated once, when
\* env.ts is imported, which is before any caller can run loadEnvironment().
\* Imported is what the three statements compute from process.env as it is.
Imported == [isDevelopment |-> isEnvironment("development"),
             isProduction |-> isEnvironment("production"),
             isTest |-> isEnvironment("test")]

\* ============================================================= shutdown
\* process.exit(0)
ExitOk == 0

Signals == {"SIGINT", "SIGTERM"}

\* The process after module initialisation: the client is connected, no
\* listener has run. handlers holds one record per listener invocation.
Running == [alive |-> TRUE, conn |-> "connected", handlers |-> {},
            delivered |-> 0, path |-> "-", code |-> ExitOk]

Awaiting == {h \in proc.handlers : h.pc = "awaiting"}
Pending  == {h \in proc.handlers : h.pc \in {"awaiting", "resumed"}}

\* A listener runs up to its await: prisma.$disconnect() is called.
listen(event) ==
    [proc EXCEPT !.handlers = @ \cup {[n |-> proc.delivered + 1, event |-> event,
                                        pc |-> "awaiting"]},
                 !.delivered = @ + 1,
                 !.conn = IF @ = "connected" THEN "disconnecting" ELSE @]

\* process.on('SIGINT' | 'SIGTERM', ...): the signal arrives.
onSignal(event) ==
    /\ proc.alive
    /\ proc.delivered < MaxSignals
    /\ proc' = listen(event)
    /\ UNCHANGED <<store, now, nextId, last, env>>

\* process.on('beforeExit', ...): emitted when the event loop has run empty.
onBeforeExit ==
    /\ proc.alive
    /\ Pending = {}
    /\ proc.delivered < MaxSignals
    /\ proc' = listen("beforeExit")
    /\ UNCHANGED <<store, now, nextId, last, env>>

\* The $disconnect() call of listener invocation h resolves.
disconnected(h) ==
    /\ proc.alive
    /\ h \in Awaiting
    /\ proc' = [proc EXCEPT !.handlers = (@ \ {h}) \cup {[h EXCEPT !.pc = "resumed"]},
                            !.conn = "disconnected"]
    /\ UNCHANGED <<store, now, nextId, last, env>>

\* A signal listener that calls process.exit(0) without awaiting.
exitEarly(h) ==
    /\ proc.alive
    /\ h \in Pending
    /\ h.event \in Signals
    /\ proc' = [proc EXCEPT !.handlers = (@ \ {h}) \cup {[h EXCEPT !.pc = "exited"]},
                            !.alive = FALSE, !.path = h.event, !.code = ExitOk]
    /\ UNCHANGED <<store, now, nextId, last, env>>

\* After its await a signal listener calls process.exit(0).
exit(h) ==
    /\ proc.alive
    /\ h \in proc.handlers
    /\ h.pc = "resumed"
    /\ h.event \in Signals
    /\ proc' = [proc EXCEPT !.handlers = (@ \ {h}) \cup {[h EXCEPT !.pc = "exited"]},
                            !.alive = FALSE, !.path = h.event, !.code = ExitOk]
    /\ UNCHANGED <<store, now, nextId, last, env>>

\* After its await the beforeExit listener returns.
returned(h) ==
    /\ proc.alive
    /\ h \in proc.handlers
    /\ h.pc = "resumed"
    /\ h.event = "beforeExit"
    /\ proc' = [proc EXCEPT !.handlers = (@ \ {h}) \cup {[h EXCEPT !.pc = "returned"]}]
    /\ UNCHANGED <<store, now, nextId, last, env>>

\* With the loop empty after a beforeExit listener has returned, Node exits
\* with process.exitCode, which nothing sets.
normalExit ==
    /\ proc.alive
    /\ Pending = {}
    /\ \E h \in proc.handlers : h.event = "beforeExit" /\ h.pc = "returned"
    /\ proc' = [proc EXCEPT !.alive = FALSE, !.path = "beforeExit", !.code = ExitOk]
    /\ UNCHANGED <<store, now, nextId, last, env>>

\* ================================================================ set-up
\* The seeded directory: two roles, one user in each.
SeedRoles == {[id |-> "r1", name |-> "admin"], [id |-> "r2", name |-> "user"]}
SeedUsers == {[id |-> "u1", email |-> "e1", roleId |-> "r1", isActive |-> TRUE,
               createdAt |-> 0],
              [id |-> "u2", email |-> "e2", roleId |-> "r2", isActive |-> TRUE,
               createdAt |-> 0]}

\* A caller that has not started.
Idle == [pc |-> "idle"]

Init ==
    /\ roles = SeedRoles
    /\ users = SeedUsers
    /\ sessions = {}
    /\ refreshTokens = {}
    /\ passwordResetTokens = {}
    /\ now = 0
    /\ nextId = 0
    /\ last = Call("init", "-", "-")
    /\ issued = {"u1", "u2", "r1", "r2"}
    /\ retired = {}
    /\ consumer = [c \in Callers |-> Idle]
    /\ deleter = Idle
    /\ sweeper = Idle
    /\ retirer = Idle
    /\ pager = Idle
    /\ createdAt = [id \in RowIds |-> NoTime]
    /\ auditLogs = {}
    /\ env = DefaultEnv
    /\ proc = Running
    /\ inflight = Idle
    /\ script = Idle
    /\ consts = Imported

\* ------------------------------------------- the token lifecycle services
\* The services of one token table, explored while the other two are empty.
OnRefreshTokens  == OthersEmpty("refreshToken") /\ UNCHANGED <<issued, retired, apart, procs>>
OnPasswordResets == OthersEmpty("passwordResetToken") /\ UNCHANGED <<issued, retired, apart, procs>>
OnSessions       == OthersEmpty("session") /\ UNCHANGED <<issued, retired, apart, procs>>

Next ==
    \/ Tick /\ UNCHANGED <<issued, retired, apart, procs>>
    \/ OnRefreshTokens
          /\ \E t \in Tokens, u \in AnyUserId, e \in ExpiryTimes : createRefreshToken(t, u, e)
    \/ OnRefreshTokens
          /\ \E id \in AnyRowId, f \in OptBool, e \in OptTime : updateRefreshToken(id, f, e)
    \/ OnRefreshTokens /\ \E id \in AnyRowId : revokeRefreshToken(id)
    \/ OnRefreshTokens /\ \E t \in Tokens : revokeRefreshTokenByToken(t)
    \/ OnRefreshTokens /\ \E id \in AnyRowId : deleteRefreshToken(id)
    \/ OnRefreshTokens /\ \E t \in Tokens : deleteRefreshTokenByToken(t)
    \/ OnRefreshTokens /\ \E u \in AnyUserId : deleteAllUserRefreshTokens(u)
    \/ OnRefreshTokens /\ deleteExpiredRefreshTokens
    \/ OnRefreshTokens /\ deleteRevokedRefreshTokens
    \/ OnRefreshTokens /\ \E u \in AnyUserId : countActiveUserRefreshTokens(u)
    \/ OnRefreshTokens /\ \E t \in Tokens : isRefreshTokenValid(t)
    \/ OnPasswordResets
          /\ \E t \in Tokens, u \in AnyUserId, e \in ExpiryTimes : createPasswordResetToken(t, u, e)
    \/ OnPasswordResets
          /\ \E id \in AnyRowId, f \in OptBool, e \in OptTime : updatePasswordResetToken(id, f, e)
    \/ OnPasswordResets /\ \E id \in AnyRowId : markPasswordResetTokenAsUsed(id)
    \/ OnPasswordResets /\ \E t \in Tokens : markPasswordResetTokenAsUsedByToken(t)
    \/ OnPasswordResets /\ \E id \in AnyRowId : deletePasswordResetToken(id)
    \/ OnPasswordResets /\ \E t \in Tokens : deletePasswordResetTokenByToken(t)
    \/ OnPasswordResets /\ \E u \in AnyUserId : deleteAllUserPasswordResetTokens(u)
    \/ OnPasswordResets /\ deleteExpiredPasswordResetTokens
    \/ OnPasswordResets /\ deleteUsedPasswordResetTokens
    \/ OnPasswordResets /\ \E u \in AnyUserId : countActiveUserPasswordResetTokens(u)
    \/ OnPasswordResets /\ \E t \in Tokens : isPasswordResetTokenValid(t)
    \/ OnPasswordResets /\ \E u \in AnyUserId : invalidateAllUserPasswordResetTokens(u)
    \/ OnSessions /\ \E t \in Tokens, u \in AnyUserId, e \in ExpiryTimes : createSession(t, u, e)
    \/ OnSessions /\ \E id \in AnyRowId, a \in OptActivity, e \in OptTime : updateSession(id, a, e)
    \/ OnSessions /\ \E t \in Tokens : updateSessionActivity(t)
    \/ OnSessions /\ \E id \in AnyRowId : deleteSession(id)
    \/ OnSessions /\ \E t \in Tokens : deleteSessionByToken(t)
    \/ OnSessions /\ \E u \in AnyUserId : deleteAllUserSessions(u)
    \/ OnSessions /\ deleteExpiredSessions
    \/ OnSessions /\ \E u \in AnyUserId : countActiveUserSessions(u)

Spec == Init /\ [][Next]_vars

\* ------------------------------------------------ retirement, observed
\* The history of retirements: a successful revoke / mark-as-used call adds
\* the token of the row it retired.
RetireOps ==
    [refreshToken |-> {"revokeRefreshToken", "revokeRefreshTokenByToken"},
     passwordResetToken |-> {"markPasswordResetTokenAsUsed",
                             "markPasswordResetTokenAsUsedByToken"}]

Remember ==
    retired' = retired \cup
        {<<table, last'.key>> : table \in {tb \in DOMAIN RetireOps :
                                              last'.ok /\ last'.op \in RetireOps[tb]}}

RefreshTokensSeen  == OthersEmpty("refreshToken") /\ UNCHANGED <<issued, apart, procs>>
PasswordResetsSeen == OthersEmpty("passwordResetToken") /\ UNCHANGED <<issued, apart, procs>>

RetireNext ==
    \/ Tick /\ UNCHANGED <<issued, retired, apart, procs>>
    \/ RefreshTokensSeen
          /\ \E t \in Tokens, u \in AnyUserId, e \in ExpiryTimes : createRefreshToken(t, u, e)
          /\ Remember
    \/ RefreshTokensSeen
          /\ \E id \in AnyRowId, f \in OptBool, e \in OptTime : updateRefreshToken(id, f, e)
          /\ Remember
    \/ RefreshTokensSeen /\ \E id \in AnyRowId : revokeRefreshToken(id) /\ Remember
    \/ RefreshTokensSeen /\ \E t \in Tokens : revokeRefreshTokenByToken(t) /\ Remember
    \/ RefreshTokensSeen /\ \E id \in AnyRowId : deleteRefreshToken(id) /\ Remember
    \/ RefreshTokensSeen /\ \E t \in Tokens : deleteRefreshTokenByToken(t) /\ Remember
    \/ RefreshTokensSeen /\ \E u \in AnyUserId : deleteAllUserRefreshTokens(u) /\ Remember
    \/ RefreshTokensSeen /\ deleteExpiredRefreshTokens /\ Remember
    \/ RefreshTokensSeen /\ deleteRevokedRefreshTokens /\ Remember
    \/ RefreshTokensSeen /\ \E u \in AnyUserId : countActiveUserRefreshTokens(u) /\ Remember
    \/ RefreshTokensSeen /\ \E t \in Tokens : isRefreshTokenValid(t) /\ Remember
    \/ PasswordResetsSeen
          /\ \E t \in Tokens, u \in AnyUserId, e \in ExpiryTimes : createPasswordResetToken(t, u, e)
          /\ Remember
    \/ PasswordResetsSeen
          /\ \E id \in AnyRowId, f \in OptBool, e \in OptTime : updatePasswordResetToken(id, f, e)
          /\ Remember
    \/ PasswordResetsSeen /\ \E id \in AnyRowId : markPasswordResetTokenAsUsed(id) /\ Remember
    \/ PasswordResetsSeen /\ \E t \in Tokens : markPasswordResetTokenAsUsedByToken(t) /\ Remember
    \/ PasswordResetsSeen /\ \E id \in AnyRowId : deletePasswordResetToken(id) /\ Remember
    \/ PasswordResetsSeen /\ \E t \in Tokens : deletePasswordResetTokenByToken(t) /\ Remember
    \/ PasswordResetsSeen /\ \E u \in AnyUserId : deleteAllUserPasswordResetTokens(u) /\ Remember
    \/ PasswordResetsSeen /\ deleteExpiredPasswordResetTokens /\ Remember
    \/ PasswordResetsSeen /\ deleteUsedPasswordResetTokens /\ Remember
    \/ PasswordResetsSeen /\ \E u \in AnyUserId : countActiveUserPasswordResetTokens(u) /\ Remember
    \/ PasswordResetsSeen /\ \E t \in Tokens : isPasswordResetTokenValid(t) /\ Remember
    \/ PasswordResetsSeen
          /\ \E u \in AnyUserId : invalidateAllUserPasswordResetTokens(u)
          /\ Remember

SpecRetire == Init /\ [][RetireNext]_vars

\* C1: once a revoke / mark-as-used call has succeeded on a token, every
\* later isRefreshTokenValid / isPasswordResetTokenValid call on that token
\* string returns false, whatever service calls run in between.
C1_RetiredStaysInvalid ==
    /\ (last.op = "isRefreshTokenValid" /\ <<"refreshToken", last.key>> \in retired)
          => last.res = FALSE
    /\ (last.op = "isPasswordResetTokenValid"
           /\ <<"passwordResetToken", last.key>> \in retired)
          => last.res = FALSE

\* C2: the isRevoked flag of an existing RefreshToken row and the isUsed flag
\* of an existing PasswordResetToken row never go from true to false.
C2_FlagNeverCleared ==
    [][ /\ \A r \in refreshTokens : \A q \in refreshTokens' :
              (q.id = r.id /\ r.isRevoked) => q.isRevoked
        /\ \A r \in passwordResetTokens : \A q \in passwordResetTokens' :
              (q.id = r.id /\ r.isUsed) => q.isUsed ]_vars

\* ------------------------------------------- validate-then-retire callers
\* A caller consumes a password reset token in two calls:
\* isPasswordResetTokenValid(token), then, on a true result,
\* markPasswordResetTokenAsUsedByToken(token). Inside the first call the
\* findUnique is awaited, and the comparison with new Date() runs when it has
\* resolved.
consumeFind(c, token) ==
    /\ consumer[c].pc = "idle"
    /\ consumer' = [consumer EXCEPT ![c] =
            [pc |-> "found", token |-> token,
             hit |-> RowsByToken(passwordResetTokens, token)]]
    /\ last' = Call("findUnique", "-", "-")
    /\ UNCHANGED <<store, now, nextId, issued, retired, apart, deleter, sweeper>>

\* return !passwordResetToken.isUsed && passwordResetToken.expiresAt > new Date()
consumeValidated(c) ==
    /\ consumer[c].pc = "found"
    /\ LET valid == \E r \in consumer[c].hit : ~r.isUsed /\ r.expiresAt > now IN
       /\ consumer' = [consumer EXCEPT ![c] =
               IF valid THEN [pc |-> "valid", token |-> consumer[c].token]
               ELSE [pc |-> "refused", token |-> consumer[c].token]]
       /\ last' = Call("isPasswordResetTokenValid", consumer[c].token, valid)
    /\ UNCHANGED <<store, now, nextId, issued, retired, apart, deleter, sweeper>>

consumeRetire(c) ==
    /\ consumer[c].pc = "valid"
    /\ markPasswordResetTokenAsUsedByToken(consumer[c].token)
    /\ consumer' = [consumer EXCEPT ![c] =
            [pc |-> IF last'.ok THEN "consumed" ELSE "failed",
             token |-> consumer[c].token]]
    /\ UNCHANGED <<issued, retired, apart, deleter, sweeper>>

ConsumeNext ==
    \/ Tick /\ UNCHANGED <<issued, retired, apart, procs>>
    \/ /\ UNCHANGED <<issued, retired, apart, procs>>
       /\ \E t \in Tokens, u \in AnyUserId, e \in ExpiryTimes :
             createPasswordResetToken(t, u, e)
    \/ \E c \in Callers, t \in Tokens : consumeFind(c, t)
    \/ \E c \in Callers : consumeValidated(c)
    \/ \E c \in Callers : consumeRetire(c)

SpecConsume == Init /\ [][ConsumeNext]_vars

\* C3: of two callers that run validate-then-retire on the same password
\* reset token concurrently, at most one observes success (a true validity
\* result followed by a successful retire).
C3_AtMostOneConsumes ==
    \A c, d \in Callers :
        (c # d /\ consumer[c].pc = "consumed" /\ consumer[d].pc = "consumed")
            => consumer[c].token # consumer[d].token

\* ------------------------------------------- check-then-delete of a role
\* A caller deletes a role in two calls: canDeleteRole(id), then, on a true
\* result, deleteRole(id).
deleterCheck(id) ==
    /\ deleter.pc = "idle"
    /\ canDeleteRole(id)
    /\ deleter' = [pc |-> IF last'.res THEN "cleared" ELSE "blocked", role |-> id]
    /\ UNCHANGED <<retired, apart, consumer, sweeper>>

deleterDelete ==
    /\ deleter.pc = "cleared"
    /\ deleteRole(deleter.role)
    /\ deleter' = [pc |-> IF last'.ok THEN "deleted" ELSE "rejected",
                   role |-> deleter.role]
    /\ UNCHANGED <<retired, apart, consumer, sweeper>>

RoleNext ==
    \/ UNCHANGED <<retired, apart, procs>> /\ \E n \in RoleNames : createRole(n)
    \/ UNCHANGED <<retired, apart, procs>> /\ \E id \in AnyRoleId : deleteRole(id)
    \/ UNCHANGED <<retired, apart, procs>> /\ \E id \in AnyRoleId : canDeleteRole(id)
    \/ UNCHANGED <<retired, apart, procs>>
          /\ \E e \in Emails, r \in AnyRoleId : createUser(e, r)
    \/ UNCHANGED <<retired, apart, procs>>
          /\ \E id \in SeedUserIds \cup NewUserIds : hardDeleteUser(id)
    \/ \E id \in AnyRoleId : deleterCheck(id)
    \/ deleterDelete

SpecRole == Init /\ [][RoleNext]_vars

SweepOps == [session |-> "deleteExpiredSessions",
             refreshToken |-> "deleteExpiredRefreshTokens",
             passwordResetToken |-> "deleteExpiredPasswordResetTokens"]

sweepSnapshot(table) ==
    /\ sweeper.pc \in {"idle", "swept"}
    /\ sweeper' = [pc |-> "snap", table |-> table, date |-> now, mark |-> nextId]
    /\ UNCHANGED <<store, now, nextId, last, issued, retired, apart, consumer, deleter>>

\* The rows the sweep's statement matches.
SweepHit ==
    CASE sweeper.table = "session" -> ExpiredSessions(sweeper.date)
      [] sweeper.table = "refreshToken" -> ExpiredRefreshTokens(sweeper.date)
      [] sweeper.table = "passwordResetToken" ->
            ExpiredPasswordResetTokens(sweeper.date)

sweepDelete ==
    /\ sweeper.pc = "snap"
    /\ sessions' = IF sweeper.table = "session"
                   THEN sessions \ SweepHit ELSE sessions
    /\ refreshTokens' = IF sweeper.table = "refreshToken"
                        THEN refreshTokens \ SweepHit ELSE refreshTokens
    /\ passwordResetTokens' = IF sweeper.table = "passwordResetToken"
                              THEN passwordResetTokens \ SweepHit
                              ELSE passwordResetTokens
    /\ last' = Call(SweepOps[sweeper.table], "-", Cardinality(SweepHit))
    /\ sweeper' = [sweeper EXCEPT !.pc = "swept"]
    /\ UNCHANGED <<roles, users, now, nextId, issued, retired, apart, consumer, deleter>>

SweepNext ==
    \/ Tick /\ UNCHANGED <<issued, retired, apart, procs>>
    \/ OnSessions
          /\ \E t \in Tokens, u \in AnyUserId, e \in ExpiryTimes : createSession(t, u, e)
    \/ OnRefreshTokens
          /\ \E t \in Tokens, u \in AnyUserId, e \in ExpiryTimes : createRefreshToken(t, u, e)
    \/ OnPasswordResets
          /\ \E t \in Tokens, u \in AnyUserId, e \in ExpiryTimes : createPasswordResetToken(t, u, e)
    \/ \E table \in DOMAIN SweepOps : sweepSnapshot(table)
    \/ sweepDelete

SpecSweep == Init /\ [][SweepNext]_vars

\* The rows of the table the sweep works on, before and after a step.
SweptTable ==
    CASE sweeper.table = "session" -> sessions
      [] sweeper.table = "refreshToken" -> refreshTokens
      [] sweeper.table = "passwordResetToken" -> passwordResetTokens

SweptTableAfter ==
    CASE sweeper.table = "session" -> sessions'
      [] sweeper.table = "refreshToken" -> refreshTokens'
      [] sweeper.table = "passwordResetToken" -> passwordResetTokens'

\* C9 as stated: an expired-sweep that runs concurrently with creates never
\* deletes a row created after the sweep took its now() snapshot, whatever
\* expiresAt the creating caller supplied.
C9_SweepSparesNewRows ==
    [][ (sweeper.pc = "snap" /\ sweeper'.pc = "swept")
          => \A r \in SweptTable : r.id > sweeper.mark => r \in SweptTableAfter ]_vars

\* C9, amended: the sweep never deletes a row created after its snapshot
\* whose expiresAt is not earlier than the snapshot.
C9_SweepSparesNewUnexpired ==
    [][ (sweeper.pc = "snap" /\ sweeper'.pc = "swept")
          => \A r \in SweptTable :
                (r.id > sweeper.mark /\ r.expiresAt >= sweeper.date)
                    => r \in SweptTableAfter ]_vars

\* A sweep has deleted an older row and spared a row that was created after
\* its snapshot and expires exactly at the snapshot.
C9_Witness ==
    /\ sweeper.pc = "swept"
    /\ last.op = "deleteExpiredRefreshTokens"
    /\ last.res > 0
    /\ \E r \in refreshTokens : r.id > sweeper.mark /\ r.expiresAt = sweeper.date

\* The per-user bulk operations that invalidate every credential of a type.
RevokeAllOps ==
    [passwordResetToken |-> {"invalidateAllUserPasswordResetTokens",
                             "deleteAllUserPasswordResetTokens"},
     refreshToken |-> {"deleteAllUserRefreshTokens"},
     session |-> {"deleteAllUserSessions"}]

\* C6: immediately after invalidateAllUserPasswordResetTokens(u),
\* deleteAllUserPasswordResetTokens(u), deleteAllUserRefreshTokens(u) or
\* deleteAllUserSessions(u) returns, the matching countActiveUser...(u) is 0.
C6_RevokeAllLeavesNoneActive ==
    /\ last.op \in RevokeAllOps.passwordResetToken
          => Cardinality(ActiveUserPasswordResetTokens(last.key)) = 0
    /\ last.op \in RevokeAllOps.refreshToken
          => Cardinality(ActiveUserRefreshTokens(last.key)) = 0
    /\ last.op \in RevokeAllOps.session
          => Cardinality(ActiveUserSessions(last.key)) = 0

\* invalidateAllUserPasswordResetTokens has just flagged rows of the user that
\* are not expired, next to a row of another user that is still active.
C6_Witness ==
    /\ last.op = "invalidateAllUserPasswordResetTokens"
    /\ last.res > 0
    /\ \E r \in passwordResetTokens :
          r.userId = last.key /\ r.isUsed /\ r.expiresAt > now
    /\ \E r \in passwordResetTokens :
          r.userId # last.key /\ ~r.isUsed /\ r.expiresAt > now

\* C7 as stated: when the user has no active entity of the type (every row of
\* the user is used / revoked or expired, or there is none), the revoke-all
\* operation reports count 0 and leaves the table unchanged.
C7_NoActiveNoOp ==
    [][ /\ (last'.op = "invalidateAllUserPasswordResetTokens"
               /\ ActiveUserPasswordResetTokens(last'.key) = {})
              => (last'.res = 0 /\ passwordResetTokens' = passwordResetTokens)
        /\ (last'.op = "deleteAllUserRefreshTokens"
               /\ ActiveUserRefreshTokens(last'.key) = {})
              => (last'.res = 0 /\ refreshTokens' = refreshTokens)
        /\ (last'.op = "deleteAllUserSessions"
               /\ ActiveUserSessions(last'.key) = {})
              => (last'.res = 0 /\ sessions' = sessions) ]_vars

\* C7, amended: when the user has no row of the type at all, the revoke-all
\* operation reports count 0 and leaves the store unchanged.
C7_NoRowsNoOp ==
    [][ /\ (last'.op = "invalidateAllUserPasswordResetTokens"
               /\ RowsOfUser(passwordResetTokens, last'.key) = {})
              => (last'.res = 0 /\ store' = store)
        /\ (last'.op = "deleteAllUserRefreshTokens"
               /\ RowsOfUser(refreshTokens, last'.key) = {})
              => (last'.res = 0 /\ store' = store)
        /\ (last'.op = "deleteAllUserSessions"
               /\ RowsOfUser(sessions, last'.key) = {})
              => (last'.res = 0 /\ store' = store) ]_vars

\* deleteAllUserRefreshTokens ran for a user without rows while another
\* user's row is in the table.
C7_Witness ==
    /\ last.op = "deleteAllUserRefreshTokens"
    /\ last.res = 0
    /\ UserExists(last.key)
    /\ refreshTokens # {}

\* C8: an expired-sweep leaves in place, unchanged, every row whose expiresAt
\* is later than the clock at the call; a retired-sweep leaves in place,
\* unchanged, every row whose isRevoked / isUsed flag is false at the call.
C8_SweepSparesFresh ==
    [][ /\ last'.op = "deleteExpiredSessions"
              => \A r \in sessions : r.expiresAt > now => r \in sessions'
        /\ last'.op = "deleteExpiredRefreshTokens"
              => \A r \in refreshTokens : r.expiresAt > now => r \in refreshTokens'
        /\ last'.op = "deleteExpiredPasswordResetTokens"
              => \A r \in passwordResetTokens :
                    r.expiresAt > now => r \in passwordResetTokens'
        /\ last'.op = "deleteRevokedRefreshTokens"
              => \A r \in refreshTokens : ~r.isRevoked => r \in refreshTokens'
        /\ last'.op = "deleteUsedPasswordResetTokens"
              => \A r \in passwordResetTokens :
                    ~r.isUsed => r \in passwordResetTokens' ]_vars

\* deleteExpiredRefreshTokens has deleted a row and spared one that expires
\* later than the clock.
C8_Witness ==
    /\ last.op = "deleteExpiredRefreshTokens"
    /\ last.res > 0
    /\ \E r \in refreshTokens : r.expiresAt > now

\* C10: immediately after createRefreshToken / createPasswordResetToken
\* succeeds with an expiresAt later than the clock, isRefreshTokenValid /
\* isPasswordResetTokenValid of the new token is true.
C10_IssuedIsValid ==
    /\ (last.op = "createRefreshToken" /\ last.ok)
          => \A r \in refreshTokens :
                (r.id = nextId /\ r.expiresAt > now) => RefreshTokenValid(r.token)
    /\ (last.op = "createPasswordResetToken" /\ last.ok)
          => \A r \in passwordResetTokens :
                (r.id = nextId /\ r.expiresAt > now) => PasswordResetTokenValid(r.token)

\* createPasswordResetToken has just stored a row that expires later than
\* the clock, at a clock that is past zero.
C10_Witness ==
    /\ last.op = "createPasswordResetToken"
    /\ last.ok
    /\ now > 0
    /\ \E r \in passwordResetTokens : r.id = nextId /\ r.expiresAt > now

\* C11: isRefreshTokenValid(token) and isPasswordResetTokenValid(token)
\* return false when no row has the token, and otherwise exactly (flag is
\* false and expiresAt is later than the clock read in the call); a token
\* whose expiresAt is already in the past is reported invalid.
C11_ValidityExact ==
    /\ last.op = "isRefreshTokenValid"
          => last.res = (\E r \in refreshTokens :
                            r.token = last.key /\ ~r.isRevoked /\ r.expiresAt > now)
    /\ last.op = "isPasswordResetTokenValid"
          => last.res = (\E r \in passwordResetTokens :
                            r.token = last.key /\ ~r.isUsed /\ r.expiresAt > now)

\* isPasswordResetTokenValid has returned false for the token of an unused
\* row whose expiresAt is in the past.
C11_Witness ==
    /\ last.op = "isPasswordResetTokenValid"
    /\ last.res = FALSE
    /\ \E r \in passwordResetTokens :
          r.token = last.key /\ ~r.isUsed /\ r.expiresAt < now

\* C19: an exported operation changes an existing Session, RefreshToken or
\* PasswordResetToken row only by setting its flag to true or (Session) by
\* writing lastActivityAt; the expiresAt of an existing row never changes.
C19_OnlyFlagAndActivityChange ==
    [][ /\ \A r \in sessions : \A q \in sessions' :
              q.id = r.id => q = [r EXCEPT !.lastActivityAt = q.lastActivityAt]
        /\ \A r \in refreshTokens : \A q \in refreshTokens' :
              q.id = r.id => (q = r \/ q = [r EXCEPT !.isRevoked = TRUE])
        /\ \A r \in passwordResetTokens : \A q \in passwordResetTokens' :
              q.id = r.id => (q = r \/ q = [r EXCEPT !.isUsed = TRUE]) ]_vars

\* ------------------------------------------------ environment, validated
\* The process starts with any environment; the two functions of env.ts run.
InitEnv ==
    /\ roles = SeedRoles
    /\ users = SeedUsers
    /\ sessions = {}
    /\ refreshTokens = {}
    /\ passwordResetTokens = {}
    /\ now = 0
    /\ nextId = 0
    /\ last = Call("init", "-", "-")
    /\ issued = {"u1", "u2", "r1", "r2"}
    /\ retired = {}
    /\ consumer = [c \in Callers |-> Idle]
    /\ deleter = Idle
    /\ sweeper = Idle
    /\ retirer = Idle
    /\ pager = Idle
    /\ createdAt = [id \in RowIds |-> NoTime]
    /\ auditLogs = {}
    /\ env \in Envs
    /\ proc = Running
    /\ inflight = Idle
    /\ script = Idle
    /\ consts = Imported

EnvFrame == UNCHANGED <<issued, retired, procs, retirer, pager, createdAt,
                        auditLogs, proc, inflight, script, consts>>

EnvNext ==
    \/ EnvFrame /\ validateEnvironment
    \/ EnvFrame
          /\ \E found \in {"env-file", "fallback", "none"}, defines \in SUBSET requiredVars,
                nodeEnv \in NodeEnvs :
                loadEnvironment(found, defines, nodeEnv)

SpecEnv == InitEnv /\ [][EnvNext]_vars

\* C18: validateEnvironment() throws when a required variable is missing or
\* empty and NODE_ENV is 'production'; with any other NODE_ENV, unset
\* included, it warns and returns; with no variable missing it returns
\* without a warning.
C18_ValidateEnvironment ==
    last.op = "validateEnvironment" =>
        LET lacking == \E v \in requiredVars : env.vars[v] # "set" IN
        /\ (lacking /\ env.nodeEnv = "production") => ~last.ok
        /\ (lacking /\ env.nodeEnv # "production") => (last.ok /\ last.res = "warned")
        /\ ~lacking => (last.ok /\ last.res = "silent")

\* validateEnvironment has warned and returned with NODE_ENV unset and an
\* empty JWT_ACCESS_SECRET.
C18_Witness ==
    /\ last.op = "validateEnvironment"
    /\ last.ok
    /\ last.res = "warned"
    /\ env.nodeEnv = "unset"
    /\ env.vars["JWT_ACCESS_SECRET"] = "empty"

\* ------------------------------------------------------ process shutdown
ShutdownFrame == UNCHANGED <<issued, retired, procs, retirer, pager, createdAt,
                             auditLogs, inflight, script, consts>>

ShutdownNext ==
    \/ ShutdownFrame /\ \E event \in Signals : onSignal(event)
    \/ ShutdownFrame /\ onBeforeExit
    \/ ShutdownFrame /\ \E h \in proc.handlers : disconnected(h)
    \/ ShutdownFrame /\ \E h \in proc.handlers : exit(h)
    \/ ShutdownFrame /\ \E h \in proc.handlers : returned(h)
    \/ ShutdownFrame /\ normalExit

SpecShutdown == Init /\ [][ShutdownNext]_vars

\* C17: on SIGINT, SIGTERM and beforeExit the process exits only after a
\* prisma.$disconnect() call of the path that exits has completed, with the
\* exit code of that path.
C17_DisconnectBeforeExit ==
    ~proc.alive =>
        /\ proc.conn = "disconnected"
        /\ proc.code = ExitOk
        /\ proc.path \in Signals
              => \E h \in proc.handlers : h.event = proc.path /\ h.pc = "exited"
        /\ proc.path = "beforeExit"
              => \E h \in proc.handlers : h.event = "beforeExit" /\ h.pc = "returned"

\* The process has exited from the SIGTERM listener while the $disconnect()
\* call of a SIGINT listener was still pending.
C17_Witness ==
    /\ ~proc.alive
    /\ proc.path = "SIGTERM"
    /\ \E h \in proc.handlers : h.event = "SIGINT" /\ h.pc = "awaiting"

\* ------------------------------------------------ retiring twice in a row
\* A caller retires a token and then, with no call in between, retires the
\* same row again, by id or by token. after holds the two token tables as
\* the first call left them.
retireOnce(table) ==
    retirer' = IF last'.ok
               THEN [pc |-> "once", table |-> table, token |-> last'.key,
                     first |-> last'.op,
                     after |-> <<refreshTokens', passwordResetTokens'>>]
               ELSE retirer

\* The caller stands between its two calls on a row of the table.
Retiring(table) == retirer.pc = "once" /\ retirer.table = table

\* same: the second call has left the token tables as the first left them.
retireAgain ==
    retirer' = [pc |-> "twice", table |-> retirer.table, token |-> retirer.token,
                first |-> retirer.first, ok |-> last'.ok,
                same |-> (<<refreshTokens', passwordResetTokens'>> = retirer.after)]

\* The id arguments that address the row the caller retired first.
SameRow(rows) == {id \in AnyRowId : /\ RowsById(rows, id) # {}
                                    /\ RowsById(rows, id) = RowsByToken(rows, retirer.token)}

TwiceFrame == UNCHANGED <<issued, retired, procs, pager, createdAt, auditLogs,
                          env, proc, inflight, script, consts>>
BetweenCalls == retirer.pc # "once" /\ UNCHANGED retirer

TwiceNext ==
    \/ TwiceFrame /\ BetweenCalls /\ Tick
    \/ TwiceFrame /\ BetweenCalls /\ OthersEmpty("refreshToken")
          /\ \E t \in Tokens, u \in AnyUserId, e \in ExpiryTimes : createRefreshToken(t, u, e)
    \/ TwiceFrame /\ BetweenCalls /\ OthersEmpty("passwordResetToken")
          /\ \E t \in Tokens, u \in AnyUserId, e \in ExpiryTimes : createPasswordResetToken(t, u, e)
    \/ TwiceFrame /\ retirer.pc = "idle"
          /\ \E id \in AnyRowId : revokeRefreshToken(id)
          /\ retireOnce("refreshToken")
    \/ TwiceFrame /\ retirer.pc = "idle"
          /\ \E t \in Tokens : revokeRefreshTokenByToken(t)
          /\ retireOnce("refreshToken")
    \/ TwiceFrame /\ retirer.pc = "idle"
          /\ \E id \in AnyRowId : markPasswordResetTokenAsUsed(id)
          /\ retireOnce("passwordResetToken")
    \/ TwiceFrame /\ retirer.pc = "idle"
          /\ \E t \in Tokens : markPasswordResetTokenAsUsedByToken(t)
          /\ retireOnce("passwordResetToken")
    \/ TwiceFrame /\ Retiring("refreshToken")
          /\ \E id \in SameRow(refreshTokens) : revokeRefreshToken(id)
          /\ retireAgain
    \/ TwiceFrame /\ Retiring("refreshToken")
          /\ revokeRefreshTokenByToken(retirer.token)
          /\ retireAgain
    \/ TwiceFrame /\ Retiring("passwordResetToken")
          /\ \E id \in SameRow(passwordResetTokens) : markPasswordResetTokenAsUsed(id)
          /\ retireAgain
    \/ TwiceFrame /\ Retiring("passwordResetToken")
          /\ markPasswordResetTokenAsUsedByToken(retirer.token)
          /\ retireAgain

SpecTwice == Init /\ [][TwiceNext]_vars

\* C12: retiring an existing RefreshToken or PasswordResetToken twice in a
\* row (revoke / revokeByToken, markAsUsed / markAsUsedByToken) succeeds both
\* times and leaves the store as the first call left it.
C12_RetireIdempotent ==
    retirer.pc = "twice" =>
        /\ retirer.ok
        /\ retirer.same

\* A password reset token was marked as used by id and then again by token,
\* next to another row that is still unused.
C12_Witness ==
    /\ retirer.pc = "twice"
    /\ retirer.ok
    /\ retirer.first = "markPasswordResetTokenAsUsed"
    /\ last.op = "markPasswordResetTokenAsUsedByToken"
    /\ last.ok
    /\ \E r \in passwordResetTokens : ~r.isUsed

\* ------------------------------------------------------ the audit service
AuditFrame == UNCHANGED <<issued, retired, procs, retirer, pager, env, proc,
                          inflight, script, consts>>

AuditNext ==
    \/ AuditFrame /\ Tick /\ UNCHANGED <<createdAt, auditLogs>>
    \/ AuditFrame
          /\ \E a \in AuditActions, t \in EntityTypes, e \in UserIds, u \in AnyUserId,
                o \in AuditValues, n \in AuditValues : createAuditLog(a, t, e, u, o, n)
          /\ Stamp
    \/ AuditFrame
          /\ \E a \in AuditActions, t \in EntityTypes, e \in UserIds, u \in AnyUserId,
                o \in AuditValues, n \in AuditValues : logUserAction(a, t, e, u, o, n)
          /\ Stamp
    \/ AuditFrame
          /\ \E id \in AnyRowId, o \in AuditValues, n \in AuditValues :
                updateAuditLog(id, o, n)
          /\ Stamp
    \/ AuditFrame /\ \E id \in AnyRowId : deleteAuditLog(id) /\ Stamp
    \/ AuditFrame /\ \E u \in AnyUserId : deleteAllUserAuditLogs(u) /\ Stamp
    \/ AuditFrame /\ \E d \in ExpiryTimes : deleteOldAuditLogs(d) /\ Stamp
    \/ AuditFrame /\ \E u \in AnyUserId : countUserAuditLogs(u) /\ Stamp

SpecAudit == Init /\ [][AuditNext]_vars

\* C16: once createAuditLog / logUserAction has written a record, its
\* action, entityType, entityId, userId, oldValue and newValue are the same
\* in every later state in which the record exists.
C16_AuditAppendOnly ==
    [][ \A r \in auditLogs : \A q \in auditLogs' : q.id = r.id => q = r ]_vars

\* ------------------------------------------------------ the user service
AllUserIds == AnyUserId \cup NewUserIds
OptRoleId  == {"absent", "r1"}

UsersFrame == UNCHANGED <<retired, apart, procs>>

UsersNext ==
    \/ UsersFrame /\ Tick /\ UNCHANGED issued
    \/ UsersFrame /\ \E e \in {"e1", "e3"}, r \in {"r0", "r1"} : createUser(e, r)
    \/ UsersFrame /\ \E id \in AllUserIds, a \in OptBool : updateUser(id, a)
    \/ UsersFrame /\ \E id \in AllUserIds : deleteUser(id)
    \/ UsersFrame /\ \E id \in AllUserIds : hardDeleteUser(id)
    \/ UsersFrame /\ \E id \in AllUserIds : findUserById(id)
    \/ UsersFrame /\ \E p \in Pages, a \in OptBool :
                        getUsers(p, MaxLimit, a, "absent", "absent")

SpecUsers == Init /\ [][UsersNext]_vars

\* C15: when deleteUser(id) has succeeded on an existing user, the row is
\* still there with isActive false (findUserById returns it), no filter
\* with isActive = true matches it, the filter isActive = false matches it;
\* a User row leaves the table only in a hardDeleteUser call.
C15_SoftDelete ==
    [][ /\ (last'.op = "deleteUser" /\ last'.ok)
              => /\ \E u \in users' : u.id = last'.key /\ ~u.isActive
                 /\ \A r \in OptRoleId, t \in SearchTerms :
                       \A u \in UsersWhere("true", r, t)' : u.id # last'.key
                 /\ \E u \in UsersWhere("false", "absent", "absent")' :
                       u.id = last'.key
        /\ (\E u \in users : RowsById(users', u.id) = {})
              => last'.op = "hardDeleteUser" ]_vars

\* deleteUser has succeeded on a user created after the seed, after a
\* seeded user was hard-deleted.
C15_Witness ==
    /\ last.op = "deleteUser"
    /\ last.ok
    /\ last.key \in NewUserIds
    /\ \E u \in users : u.id = last.key /\ ~u.isActive
    /\ \E id \in SeedUserIds : RowsById(users, id) = {}

\* ------------------------------------------------------ paginated lists
\* The five paginated list functions, on tables filled one at a time: the
\* token and audit tables grow while the User table is as seeded. The rows
\* vary in the columns the filters of the calls read.
Seeded == users = SeedUsers
OnTable(table) ==
    /\ OthersEmpty(table)
    /\ table # "auditLog" => auditLogs = {}
    /\ UNCHANGED <<issued, retired, procs, retirer, pager, env, proc, inflight,
                   script, consts>>
Filling(table) == OnTable(table) /\ Seeded /\ UNCHANGED auditLogs
Listed(table)  == OnTable(table) /\ UNCHANGED <<createdAt, auditLogs>>

PagesNext ==
    \/ Tick /\ UNCHANGED <<issued, retired, apart, procs>>
    \/ Filling("session")
          /\ \E t \in Tokens, e \in 0..1 : createSession(t, "u1", e)
          /\ Stamp
    \/ Filling("refreshToken")
          /\ \E t \in Tokens, u \in UserIds : createRefreshToken(t, u, 1)
          /\ Stamp
    \/ Filling("passwordResetToken")
          /\ \E t \in Tokens, e \in 0..1 : createPasswordResetToken(t, "u1", e)
          /\ Stamp
    \/ OnTable("auditLog") /\ Seeded
          /\ \E u \in UserIds : createAuditLog("LOGIN", "User", u, u, "absent", "absent")
          /\ Stamp
    \/ Listed("refreshToken") /\ \E t \in Tokens : revokeRefreshTokenByToken(t)
    \/ Listed("passwordResetToken")
          /\ \E t \in Tokens : markPasswordResetTokenAsUsedByToken(t)
    \/ UNCHANGED <<retired, apart, procs>> /\ nextId = 0
          /\ createUser("e3", "r1")
    \/ UNCHANGED <<issued, retired, apart, procs>> /\ nextId = 0
          /\ \E id \in AllUserIds : deleteUser(id)
    \/ Listed("session")
          /\ \E p \in Pages, l \in Limits, e \in OptBool :
                getSessions(p, l, "absent", e)
    \/ Listed("refreshToken")
          /\ \E p \in Pages, l \in Limits, u \in OptUserId, f \in OptBool :
                getRefreshTokens(p, l, u, f, "absent")
    \/ Listed("passwordResetToken")
          /\ \E p \in Pages, l \in Limits, f \in {"absent", "false"}, e \in OptBool :
                getPasswordResetTokens(p, l, "absent", f, e)
    \/ OnTable("auditLog") /\ UNCHANGED createdAt
          /\ \E p \in Pages, l \in Limits, u \in OptUserId, from \in {NoTime, 1} :
                getAuditLogs(p, l, u, "absent", "absent", "absent", from, NoTime)
    \/ UNCHANGED <<issued, retired, apart, procs>> /\ nextId = 0
          /\ \E p \in Pages, l \in Limits, a \in OptBool, t \in {"absent", "e3"} :
                getUsers(p, l, a, "absent", t)

SpecPages == Init /\ [][PagesNext]_vars

\* ceil(T / L): the least k with k * L >= T.
PagesFor(T, L) == CHOOSE k \in 0..T : k * L >= T /\ (k = 0 \/ (k - 1) * L < T)

\* The result res is the page p of T matching rows under limit L.
IsPage(res, p, L, T) ==
    /\ res.pagination = [page |-> p, limit |-> L, total |-> T, pages |-> PagesFor(T, L)]
    /\ Len(res.items) = Min(L, IF T > (p - 1) * L THEN T - (p - 1) * L ELSE 0)

\* C13: every paginated list function, called with page p >= 1 and limit
\* L >= 1 on a store with T rows matching its filters, returns pagination
\* {page: p, limit: L, total: T, pages: ceil(T/L)} and exactly
\* min(L, max(0, T - (p-1)*L)) items.
C13_PaginationEnvelope ==
    LET o == last.key IN
    /\ last.op = "getUsers"
          => IsPage(last.res, o.page, o.limit,
                    Cardinality(UsersWhere(o.isActive, o.roleId, o.search)))
    /\ last.op = "getSessions"
          => IsPage(last.res, o.page, o.limit,
                    Cardinality(SessionsWhere(o.userId, o.isExpired)))
    /\ last.op = "getRefreshTokens"
          => IsPage(last.res, o.page, o.limit,
                    Cardinality(RefreshTokensWhere(o.userId, o.isRevoked, o.isExpired)))
    /\ last.op = "getPasswordResetTokens"
          => IsPage(last.res, o.page, o.limit,
                    Cardinality(PasswordResetTokensWhere(o.userId, o.isUsed, o.isExpired)))
    /\ last.op = "getAuditLogs"
          => IsPage(last.res, o.page, o.limit,
                    Cardinality(AuditLogsWhere(o.userId, o.entityType, o.entityId,
                                               o.action, o.dateFrom, o.dateTo)))

\* getPasswordResetTokens has returned page 2 of two matching rows under
\* limit 1: one item, two pages.
C13_Witness ==
    /\ last.op = "getPasswordResetTokens"
    /\ last.res.pagination = [page |-> 2, limit |-> 1, total |-> 2, pages |-> 2]
    /\ Len(last.res.items) = 1

\* ------------------------------------------------------- a whole listing
\* A caller reads a whole listing with no filter, page after page, one call
\* per page, on a store nobody writes to while it reads.
Lists == {"getUsers", "getSessions", "getRefreshTokens", "getPasswordResetTokens",
          "getAuditLogs"}

fetch(list, page, limit) ==
    CASE list = "getUsers" -> getUsers(page, limit, "absent", "absent", "absent")
      [] list = "getSessions" -> getSessions(page, limit, "absent", "absent")
      [] list = "getRefreshTokens" ->
            getRefreshTokens(page, limit, "absent", "absent", "absent")
      [] list = "getPasswordResetTokens" ->
            getPasswordResetTokens(page, limit, "absent", "absent", "absent")
      [] list = "getAuditLogs" ->
            getAuditLogs(page, limit, "absent", "absent", "absent", "absent",
                         NoTime, NoTime)

\* The ids of the rows the list matches with no filter.
Matching(list) ==
    CASE list = "getUsers" -> {r.id : r \in users}
      [] list = "getSessions" -> {r.id : r \in sessions}
      [] list = "getRefreshTokens" -> {r.id : r \in refreshTokens}
      [] list = "getPasswordResetTokens" -> {r.id : r \in passwordResetTokens}
      [] list = "getAuditLogs" -> {r.id : r \in auditLogs}

\* The caller keeps the items of page 1 and learns the number of pages.
firstPage(list, limit) ==
    LET got == last'.res IN
    pager' = [pc |-> IF got.pagination.pages <= 1 THEN "done" ELSE "reading",
              list |-> list, limit |-> limit, page |-> 1,
              pages |-> got.pagination.pages, total |-> got.pagination.total,
              seen |-> got.items]

\* The caller appends the items of the next page.
nextPage ==
    pager' = [pager EXCEPT !.pc = IF pager.page + 1 >= pager.pages
                                  THEN "done" ELSE "reading",
                           !.page = @ + 1,
                           !.seen = @ \o last'.res.items]

PagerFrame == UNCHANGED <<issued, retired, procs, retirer, createdAt, auditLogs,
                          env, proc, inflight, script, consts>>

PagerNext ==
    \/ pager = Idle /\ Tick /\ UNCHANGED <<issued, retired, apart, procs>>
    \/ pager = Idle /\ Filling("session")
          /\ \E t \in Tokens, u \in UserIds, e \in ExpiryTimes : createSession(t, u, e)
          /\ Stamp
    \/ pager = Idle /\ Filling("refreshToken")
          /\ \E t \in Tokens, u \in UserIds, e \in ExpiryTimes : createRefreshToken(t, u, e)
          /\ Stamp
    \/ pager = Idle /\ Filling("passwordResetToken")
          /\ \E t \in Tokens, u \in UserIds, e \in ExpiryTimes :
                createPasswordResetToken(t, u, e)
          /\ Stamp
    \/ pager = Idle /\ OnTable("auditLog") /\ Seeded
          /\ \E a \in AuditActions, u \in UserIds :
                createAuditLog(a, "User", u, u, "absent", "absent")
          /\ Stamp
    \/ pager = Idle /\ PagerFrame
          /\ \E list \in Lists, limit \in Limits :
                fetch(list, 1, limit) /\ firstPage(list, limit)
    \/ pager.pc = "reading" /\ PagerFrame
          /\ fetch(pager.list, pager.page + 1, pager.limit)
          /\ nextPage

SpecPager == Init /\ [][PagerNext]_vars

\* C14: a caller that has requested pages 1 .. ceil(T/L) of a list on an
\* unchanging store holds exactly T items, and each matching row exactly
\* once.
C14_EachRowOnce ==
    pager.pc = "done"
        => /\ Len(pager.seen) = pager.total
           /\ \A id \in Matching(pager.list) :
                 Cardinality({i \in DOMAIN pager.seen : pager.seen[i] = id}) = 1

\* ------------------------------------------------------- per-user lists
\* The six per-user list functions, on tables filled one at a time.
UserListsNext ==
    \/ Tick /\ UNCHANGED <<issued, retired, apart, procs>>
    \/ Filling("session")
          /\ \E t \in Tokens, u \in UserIds, e \in ExpiryTimes : createSession(t, u, e)
          /\ Stamp
    \/ Filling("refreshToken")
          /\ \E t \in Tokens, u \in UserIds, e \in ExpiryTimes : createRefreshToken(t, u, e)
          /\ Stamp
    \/ Filling("passwordResetToken")
          /\ \E t \in Tokens, u \in UserIds, e \in ExpiryTimes :
                createPasswordResetToken(t, u, e)
          /\ Stamp
    \/ Listed("session")
          /\ \E id \in RowIds, a \in Time : updateSession(id, a, NoTime)
    \/ Listed("session") /\ \E t \in Tokens : updateSessionActivity(t)
    \/ Listed("refreshToken") /\ \E t \in Tokens : revokeRefreshTokenByToken(t)
    \/ Listed("passwordResetToken")
          /\ \E t \in Tokens : markPasswordResetTokenAsUsedByToken(t)
    \/ Listed("session") /\ \E u \in UserIds : getUserSessions(u)
    \/ Listed("session") /\ \E u \in UserIds : getActiveUserSessions(u)
    \/ Listed("refreshToken") /\ \E u \in UserIds : getUserRefreshTokens(u)
    \/ Listed("refreshToken") /\ \E u \in UserIds : getActiveUserRefreshTokens(u)
    \/ Listed("passwordResetToken") /\ \E u \in UserIds : getUserPasswordResetTokens(u)
    \/ Listed("passwordResetToken")
          /\ \E u \in UserIds : getActiveUserPasswordResetTokens(u)

SpecUserLists == Init /\ [][UserListsNext]_vars

UserListOps == {"getUserSessions", "getActiveUserSessions", "getUserRefreshTokens",
                "getActiveUserRefreshTokens", "getUserPasswordResetTokens",
                "getActiveUserPasswordResetTokens"}

\* The ids of the rows a per-user list is to return for the user: the user's
\* rows, and for an active variant those not flagged and not yet expired.
Owed(op, userId) ==
    CASE op = "getUserSessions" -> {r.id : r \in {x \in sessions : x.userId = userId}}
      [] op = "getActiveUserSessions" ->
            {r.id : r \in {x \in sessions : x.userId = userId /\ x.expiresAt > now}}
      [] op = "getUserRefreshTokens" ->
            {r.id : r \in {x \in refreshTokens : x.userId = userId}}
      [] op = "getActiveUserRefreshTokens" ->
            {r.id : r \in {x \in refreshTokens :
                              x.userId = userId /\ ~x.isRevoked /\ x.expiresAt > now}}
      [] op = "getUserPasswordResetTokens" ->
            {r.id : r \in {x \in passwordResetTokens : x.userId = userId}}
      [] op = "getActiveUserPasswordResetTokens" ->
            {r.id : r \in {x \in passwordResetTokens :
                              x.userId = userId /\ ~x.isUsed /\ x.expiresAt > now}}

\* The sequence of ids holds exactly the ids of the set, each once.
ExactlyOnce(ids, set) ==
    /\ Len(ids) = Cardinality(set)
    /\ {ids[i] : i \in DOMAIN ids} = set

\* Each item is at least as new as the one after it.
NewestFirst(ids, stamp) ==
    \A i \in 1..(Len(ids) - 1) : stamp[ids[i]] >= stamp[ids[i + 1]]

\* The lastActivityAt of the session rows, by id.
ActivityOf == [id \in {r.id : r \in sessions} |->
                 (CHOOSE r \in sessions : r.id = id).lastActivityAt]

\* C20: each per-user list returns exactly the user's rows (the active
\* variants: those with flag false and expiresAt > now), ordered newest
\* first by creation time.
C20_NewestFirstByCreation ==
    last.op \in UserListOps
        => /\ ExactlyOnce(last.res, Owed(last.op, last.key))
           /\ NewestFirst(last.res, createdAt)

\* C20, amended: each per-user list returns exactly the user's rows (the
\* active variants: those with flag false and expiresAt > now); the token
\* lists are ordered newest first by creation time, the session lists by
\* lastActivityAt, most recently active first.
C20_UserListsOrdered ==
    last.op \in UserListOps
        => /\ ExactlyOnce(last.res, Owed(last.op, last.key))
           /\ NewestFirst(last.res,
                          IF last.op \in {"getUserSessions", "getActiveUserSessions"}
                          THEN ActivityOf ELSE createdAt)

\* getUserSessions has returned two sessions of the user, the older one
\* first because it was active more recently.
C20_Witness ==
    /\ last.op = "getUserSessions"
    /\ Len(last.res) = 2
    /\ createdAt[last.res[1]] < createdAt[last.res[2]]
    /\ ActivityOf[last.res[1]] > ActivityOf[last.res[2]]

\* ------------------------------------------------- environment constants
\* C27: after loadEnvironment() has returned, isDevelopment, isProduction
\* and isTest equal isEnvironment('development'), isEnvironment('production')
\* and isEnvironment('test') evaluated at that moment, and isProduction is
\* true exactly when validateEnvironment treats missing variables as fatal.
C27_ConstantsTrackEnvironment ==
    (last.op = "loadEnvironment" /\ last.ok)
        => /\ consts = Imported
           /\ consts.isProduction <=> (env.nodeEnv = "production")

\* ------------------------------------------------------- rows not there
\* The single-row functions of every service, called with ids, tokens,
\* emails and names that match a row and that match none.
\* The service tables are explored one at a time: token rows are created
\* while the User and Role tables are as seeded.
Untouched == Seeded /\ roles = SeedRoles

AbsentNext ==
    \/ OnRefreshTokens /\ Untouched /\ \E t \in Tokens : createRefreshToken(t, "u1", 1)
    \/ OnPasswordResets /\ Untouched
          /\ \E t \in Tokens : createPasswordResetToken(t, "u1", 1)
    \/ OnSessions /\ Untouched /\ \E t \in Tokens : createSession(t, "u1", 1)
    \/ UsersFrame /\ nextId = 0 /\ roles = SeedRoles /\ createUser("e3", "r1")
    \/ UsersFrame /\ nextId = 0 /\ Seeded /\ createRole("guest")
    \/ OnRefreshTokens /\ \E t \in Tokens : findRefreshTokenByToken(t)
    \/ OnRefreshTokens /\ \E id \in AnyRowId : findRefreshTokenById(id)
    \/ OnPasswordResets /\ \E t \in Tokens : findPasswordResetTokenByToken(t)
    \/ OnPasswordResets /\ \E id \in AnyRowId : findPasswordResetTokenById(id)
    \/ OnSessions /\ \E t \in Tokens : findSessionByToken(t)
    \/ OnSessions /\ \E id \in AnyRowId : findSessionById(id)
    \/ UsersFrame /\ \E id \in AllUserIds : findUserById(id)
    \/ UsersFrame /\ \E e \in Emails : findUserByEmail(e)
    \/ UsersFrame /\ \E n \in RoleNames : findRoleByName(n)
    \/ OnRefreshTokens
          /\ \E id \in AnyRowId, f \in {"absent", "true"} :
                updateRefreshToken(id, f, NoTime)
    \/ OnRefreshTokens /\ \E id \in AnyRowId : revokeRefreshToken(id)
    \/ OnRefreshTokens /\ \E t \in Tokens : revokeRefreshTokenByToken(t)
    \/ OnRefreshTokens /\ \E id \in AnyRowId : deleteRefreshToken(id)
    \/ OnRefreshTokens /\ \E t \in Tokens : deleteRefreshTokenByToken(t)
    \/ OnPasswordResets
          /\ \E id \in AnyRowId, f \in {"absent", "true"} :
                updatePasswordResetToken(id, f, NoTime)
    \/ OnPasswordResets /\ \E id \in AnyRowId : markPasswordResetTokenAsUsed(id)
    \/ OnPasswordResets /\ \E t \in Tokens : markPasswordResetTokenAsUsedByToken(t)
    \/ OnPasswordResets /\ \E id \in AnyRowId : deletePasswordResetToken(id)
    \/ OnPasswordResets /\ \E t \in Tokens : deletePasswordResetTokenByToken(t)
    \/ OnSessions
          /\ \E id \in AnyRowId, a \in {NoTime, 0} : updateSession(id, a, NoTime)
    \/ OnSessions /\ \E t \in Tokens : updateSessionActivity(t)
    \/ OnSessions /\ \E id \in AnyRowId : deleteSession(id)
    \/ OnSessions /\ \E t \in Tokens : deleteSessionByToken(t)
    \/ UsersFrame /\ nextId = 0 /\ \E id \in AllUserIds, a \in OptBool : updateUser(id, a)
    \/ UsersFrame /\ nextId = 0 /\ \E id \in AllUserIds : deleteUser(id)
    \/ UsersFrame /\ nextId = 0 /\ roles = SeedRoles
          /\ \E id \in AllUserIds : hardDeleteUser(id)
    \/ UsersFrame /\ nextId = 0 /\ Seeded /\ \E id \in AnyRoleId : deleteRole(id)

SpecAbsent == Init /\ [][AbsentNext]_vars

\* The call returned null and wrote nothing.
ReturnedNull == last'.ok /\ last'.res = {} /\ store' = store

\* The call threw and wrote nothing.
Threw == ~last'.ok /\ store' = store

NoToken(rows, token) == \A r \in rows : r.token # token
NoId(rows, id)       == \A r \in rows : r.id # id

\* C21: for an id or token that matches no row, the single-entity finders
\* return null without error, while the update, mark/revoke and delete
\* functions throw and leave the store unchanged.
C21_AbsentRow ==
    [][ /\ \A t \in Tokens :
              /\ (/\ last'.op = "findRefreshTokenByToken"
                  /\ NoToken(refreshTokens, t)
                  /\ findRefreshTokenByToken(t)) => ReturnedNull
              /\ (/\ last'.op = "findPasswordResetTokenByToken"
                  /\ NoToken(passwordResetTokens, t)
                  /\ findPasswordResetTokenByToken(t)) => ReturnedNull
              /\ (/\ last'.op = "findSessionByToken"
                  /\ NoToken(sessions, t)
                  /\ findSessionByToken(t)) => ReturnedNull
              /\ (/\ last'.op = "revokeRefreshTokenByToken"
                  /\ NoToken(refreshTokens, t)
                  /\ revokeRefreshTokenByToken(t)) => Threw
              /\ (/\ last'.op = "deleteRefreshTokenByToken"
                  /\ NoToken(refreshTokens, t)
                  /\ deleteRefreshTokenByToken(t)) => Threw
              /\ (/\ last'.op = "markPasswordResetTokenAsUsedByToken"
                  /\ NoToken(passwordResetTokens, t)
                  /\ markPasswordResetTokenAsUsedByToken(t)) => Threw
              /\ (/\ last'.op = "deletePasswordResetTokenByToken"
                  /\ NoToken(passwordResetTokens, t)
                  /\ deletePasswordResetTokenByToken(t)) => Threw
              /\ (/\ last'.op = "updateSessionActivity"
                  /\ NoToken(sessions, t)
                  /\ updateSessionActivity(t)) => Threw
              /\ (/\ last'.op = "deleteSessionByToken"
                  /\ NoToken(sessions, t)
                  /\ deleteSessionByToken(t)) => Threw
        /\ \A id \in AnyRowId :
              /\ (/\ last'.op = "findRefreshTokenById"
                  /\ NoId(refreshTokens, id)
                  /\ findRefreshTokenById(id)) => ReturnedNull
              /\ (/\ last'.op = "findPasswordResetTokenById"
                  /\ NoId(passwordResetTokens, id)
                  /\ findPasswordResetTokenById(id)) => ReturnedNull
              /\ (/\ last'.op = "findSessionById"
                  /\ NoId(sessions, id)
                  /\ findSessionById(id)) => ReturnedNull
              /\ (/\ last'.op = "revokeRefreshToken"
                  /\ NoId(refreshTokens, id)
                  /\ revokeRefreshToken(id)) => Threw
              /\ (/\ last'.op = "deleteRefreshToken"
                  /\ NoId(refreshTokens, id)
                  /\ deleteRefreshToken(id)) => Threw
              /\ (/\ last'.op = "markPasswordResetTokenAsUsed"
                  /\ NoId(passwordResetTokens, id)
                  /\ markPasswordResetTokenAsUsed(id)) => Threw
              /\ (/\ last'.op = "deletePasswordResetToken"
                  /\ NoId(passwordResetTokens, id)
                  /\ deletePasswordResetToken(id)) => Threw
              /\ (/\ last'.op = "deleteSession"
                  /\ NoId(sessions, id)
                  /\ deleteSession(id)) => Threw
              /\ \A f \in {"absent", "true"} :
                    /\ (/\ last'.op = "updateRefreshToken"
                        /\ NoId(refreshTokens, id)
                        /\ updateRefreshToken(id, f, NoTime)) => Threw
                    /\ (/\ last'.op = "updatePasswordResetToken"
                        /\ NoId(passwordResetTokens, id)
                        /\ updatePasswordResetToken(id, f, NoTime)) => Threw
              /\ \A a \in {NoTime, 0} :
                    /\ (/\ last'.op = "updateSession"
                        /\ NoId(sessions, id)
                        /\ updateSession(id, a, NoTime)) => Threw
        /\ \A id \in AllUserIds :
              /\ (/\ last'.op = "findUserById"
                  /\ NoId(users, id)
                  /\ findUserById(id)) => ReturnedNull
              /\ (/\ last'.op = "deleteUser"
                  /\ NoId(users, id)
                  /\ deleteUser(id)) => Threw
              /\ (/\ last'.op = "hardDeleteUser"
                  /\ NoId(users, id)
                  /\ hardDeleteUser(id)) => Threw
              /\ \A a \in OptBool :
                    /\ (/\ last'.op = "updateUser"
                        /\ NoId(users, id)
                        /\ updateUser(id, a)) => Threw
        /\ \A e \in Emails :
              /\ (/\ last'.op = "findUserByEmail"
                  /\ \A u \in users : u.email # e
                  /\ findUserByEmail(e)) => ReturnedNull
        /\ \A n \in RoleNames :
              /\ (/\ last'.op = "findRoleByName"
                  /\ \A r \in roles : r.name # n
                  /\ findRoleByName(n)) => ReturnedNull
        /\ \A id \in AnyRoleId :
              /\ (/\ last'.op = "deleteRole"
                  /\ NoId(roles, id)
                  /\ deleteRole(id)) => Threw ]_vars

\* updateSessionActivity has thrown on a token that matches no row of a
\* Session table that holds another row.
C21_Witness ==
    /\ last.op = "updateSessionActivity"
    /\ ~last.ok
    /\ sessions # {}

\* --------------------------------------- a paginated list, query by query
\* Each paginated list function awaits Promise.all([findMany(...), count(...)]):
\* two statements sent to the store together, outside a transaction. The store
\* runs them one after the other in either order, and the statements of other
\* callers in between. The call here passes no filter.
RowsOf(list) ==
    CASE list = "getUsers" -> users
      [] list = "getSessions" -> sessions
      [] list = "getRefreshTokens" -> refreshTokens
      [] list = "getPasswordResetTokens" -> passwordResetTokens
      [] list = "getAuditLogs" -> auditLogs

\* The orderBy column of the list.
OrderOf(list) ==
    CASE list = "getUsers" -> ByUserCreatedAt(users)
      [] list = "getSessions" -> ByLastActivityAt(sessions)
      [] list = "getRefreshTokens" -> ByCreatedAt(refreshTokens)
      [] list = "getPasswordResetTokens" -> ByCreatedAt(passwordResetTokens)
      [] list = "getAuditLogs" -> ByCreatedAt(auditLogs)

\* The function is called: skip is computed, both statements are sent.
listCalled(list, page, limit) ==
    /\ inflight = Idle
    /\ inflight' = [pc |-> "querying", list |-> list, page |-> page, limit |-> limit,
                    done |-> {}, items |-> << >>, total |-> 0]
    /\ UNCHANGED <<store, auditLogs, now, nextId, last>>

\* The store runs the findMany statement.
findMany ==
    /\ inflight.pc = "querying"
    /\ "findMany" \notin inflight.done
    /\ \E ordered \in Descending(RowsOf(inflight.list), OrderOf(inflight.list)) :
          inflight' = [inflight EXCEPT
                          !.items = Ids(Take(Skip(ordered, (inflight.page - 1) * inflight.limit),
                                             inflight.limit)),
                          !.done = @ \cup {"findMany"}]
    /\ UNCHANGED <<store, auditLogs, now, nextId, last>>

\* The store runs the count statement.
count ==
    /\ inflight.pc = "querying"
    /\ "count" \notin inflight.done
    /\ inflight' = [inflight EXCEPT !.total = Cardinality(RowsOf(inflight.list)),
                                    !.done = @ \cup {"count"}]
    /\ UNCHANGED <<store, auditLogs, now, nextId, last>>

\* Promise.all resolves; the function returns items and pagination.
listReturned ==
    /\ inflight.pc = "querying"
    /\ inflight.done = {"findMany", "count"}
    /\ last' = Call(inflight.list, [page |-> inflight.page, limit |-> inflight.limit],
                    [items |-> inflight.items,
                     pagination |-> [page |-> inflight.page, limit |-> inflight.limit,
                                     total |-> inflight.total,
                                     pages |-> Ceil(inflight.total, inflight.limit)]])
    /\ inflight' = Idle
    /\ UNCHANGED <<store, auditLogs, now, nextId>>

InflightFrame == UNCHANGED <<issued, retired, procs, retirer, pager, createdAt, env,
                             proc, script, consts>>

InflightNext ==
    \/ Filling("session") /\ \E t \in Tokens : createSession(t, "u1", 1) /\ Stamp
    \/ Filling("refreshToken")
          /\ \E t \in Tokens : createRefreshToken(t, "u1", 1)
          /\ Stamp
    \/ Filling("passwordResetToken")
          /\ \E t \in Tokens : createPasswordResetToken(t, "u1", 1)
          /\ Stamp
    \/ OnTable("auditLog") /\ Seeded
          /\ createAuditLog("LOGIN", "User", "u1", "u1", "absent", "absent")
          /\ Stamp
    \/ UNCHANGED <<retired, apart, procs>> /\ nextId = 0 /\ createUser("e3", "r1")
    \/ Listed("session") /\ \E t \in Tokens : deleteSessionByToken(t)
    \/ Listed("refreshToken") /\ \E t \in Tokens : deleteRefreshTokenByToken(t)
    \/ Listed("passwordResetToken")
          /\ \E t \in Tokens : deletePasswordResetTokenByToken(t)
    \/ OnTable("auditLog") /\ UNCHANGED createdAt /\ \E id \in RowIds : deleteAuditLog(id)
    \/ UNCHANGED <<issued, retired, apart, procs>> /\ nextId = 0
          /\ \E id \in AllUserIds : hardDeleteUser(id)
    \/ InflightFrame
          /\ \E list \in Lists, page \in Pages, limit \in Limits : listCalled(list, page, limit)
    \/ InflightFrame /\ findMany
    \/ InflightFrame /\ count
    \/ InflightFrame /\ listReturned

SpecInflight == Init /\ [][InflightNext]_vars

\* C22: in every result of a paginated list function, items.length =
\* min(limit, max(0, total - (page-1)*limit)) for the returned total, also
\* when creates or deletes of other callers run between its findMany and its
\* count.
C22_ItemsMatchTotal ==
    last.op \in Lists
        => LET g == last.res.pagination
               left == IF g.total > (g.page - 1) * g.limit
                       THEN g.total - (g.page - 1) * g.limit ELSE 0
           IN  Len(last.res.items) = Min(g.limit, left)

\* ------------------------------------------------- the isExpired filter
\* The rows of the set that the validity check takes for unexpired, or for
\* expired.
OfExpiry(rows, isExpired) ==
    {r \in rows : (r.expiresAt > now) = (isExpired = "false")}

\* C23: a row is selected by filters.isExpired = false in getRefreshTokens,
\* getPasswordResetTokens and getSessions exactly when expiresAt > now, the
\* test of the validity checks and the countActive functions, and by
\* isExpired = true exactly when it is not.
C23_FilterAgreesWithValidity ==
    LET o == last.key
        total == last.res.pagination.total
    IN
    /\ (last.op = "getSessions" /\ o.isExpired # "absent")
          => total = Cardinality(OfExpiry(SessionsWhere(o.userId, "absent"), o.isExpired))
    /\ (last.op = "getRefreshTokens" /\ o.isExpired # "absent")
          => total = Cardinality(OfExpiry(RefreshTokensWhere(o.userId, o.isRevoked, "absent"),
                                          o.isExpired))
    /\ (last.op = "getPasswordResetTokens" /\ o.isExpired # "absent")
          => total = Cardinality(OfExpiry(PasswordResetTokensWhere(o.userId, o.isUsed,
                                                                   "absent"),
                                          o.isExpired))


\* ------------------------------------------------------- the seed script
\* process.exit(1)
ExitFailure == 1

\* The awaited store calls of main(), in program order. The roleId of a user
\* is the id returned by the createRole call of that name.
SeedPlan ==
    << [op |-> "createRole", name |-> "admin"],
       [op |-> "createRole", name |-> "manager"],
       [op |-> "createRole", name |-> "user"],
       [op |-> "createUser", email |-> "admin@example.com", role |-> "admin"],
       [op |-> "createUser", email |-> "manager@example.com", role |-> "manager"],
       [op |-> "createUser", email |-> "user@example.com", role |-> "user"],
       [op |-> "createUser", email |-> "test1@example.com", role |-> "user"],
       [op |-> "createUser", email |-> "test2@example.com", role |-> "user"],
       [op |-> "createUser", email |-> "test3@example.com", role |-> "user"],
       [op |-> "createUser", email |-> "test4@example.com", role |-> "user"],
       [op |-> "createUser", email |-> "test5@example.com", role |-> "user"],
       [op |-> "count", table |-> "user"],
       [op |-> "count", table |-> "role"] >>

\* The id the store generates for a row the script creates.
SeedId(natural) == "id:" \o natural

\* The store accepts the call: the unique column is free.
Accepted(c) ==
    CASE c.op = "createRole" -> NameFree(c.name)
      [] c.op = "createUser" -> EmailFree(c.email)
      [] c.op = "count" -> TRUE

\* seed.ts is run: client.ts has registered its listeners, main() is called
\* and runs up to its first await.
main ==
    /\ proc.alive
    /\ script = Idle
    /\ script' = [pc |-> "main", step |-> 1, finally |-> FALSE]
    /\ UNCHANGED <<roles, users, last, issued, proc>>

\* The awaited call of main() at position step settles. A call that throws
\* rejects the promise of main(); the last call that returns fulfils it. A
\* query on a client that was disconnected connects it again.
seedCall ==
    /\ proc.alive
    /\ script.pc = "main"
    /\ LET c == SeedPlan[script.step]
       IN
       /\ IF ~Accepted(c)
          THEN /\ last' = Fail(c.op)
               /\ script' = [script EXCEPT !.pc = "rejected"]
               /\ UNCHANGED <<roles, users, issued>>
          ELSE /\ last' = Call(c.op, "-", "ok")
               /\ script' = [script EXCEPT
                                !.pc = IF script.step = Len(SeedPlan)
                                       THEN "fulfilled" ELSE "main",
                                !.step = @ + 1]
               /\ roles' = IF c.op = "createRole"
                           THEN roles \cup {[id |-> SeedId(c.name), name |-> c.name]}
                           ELSE roles
               /\ users' = IF c.op = "createUser"
                           THEN users \cup {NewUser(SeedId(c.email), c.email, SeedId(c.role))}
                           ELSE users
               /\ issued' = IF c.op = "createRole" THEN issued \cup {SeedId(c.name)}
                            ELSE IF c.op = "createUser" THEN issued \cup {SeedId(c.email)}
                            ELSE issued
    /\ proc' = [proc EXCEPT !.conn = IF @ = "disconnected" THEN "connected" ELSE @]

\* .catch((e) => { console.error(...); process.exit(1); }): the process ends
\* inside the callback, so the promise .catch() returns never settles.
onRejected ==
    /\ proc.alive
    /\ script.pc = "rejected"
    /\ script' = [script EXCEPT !.pc = "exited"]
    /\ proc' = [proc EXCEPT !.alive = FALSE, !.path = "catch", !.code = ExitFailure]
    /\ UNCHANGED <<roles, users, last, issued>>

\* .finally(async () => { await prisma.$disconnect(); }): runs once the
\* promise of .catch() has settled, up to its await.
onFinally ==
    /\ proc.alive
    /\ script.pc = "fulfilled"
    /\ script' = [script EXCEPT !.pc = "disconnecting", !.finally = TRUE]
    /\ proc' = [proc EXCEPT !.conn = IF @ = "connected" THEN "disconnecting" ELSE @]
    /\ UNCHANGED <<roles, users, last, issued>>

\* The $disconnect() call of the finally callback resolves: the chain is done
\* and nothing of the script is left on the event loop.
seedDisconnected ==
    /\ proc.alive
    /\ script.pc = "disconnecting"
    /\ script' = [script EXCEPT !.pc = "done"]
    /\ proc' = [proc EXCEPT !.conn = "disconnected"]
    /\ UNCHANGED <<roles, users, last, issued>>

\* The database before the run: empty, or holding the admin role already.
InitSeed ==
    /\ \/ roles = {} /\ users = {} /\ issued = {}
       \/ roles = SeedRoles /\ users = SeedUsers /\ issued = {"u1", "u2", "r1", "r2"}
    /\ sessions = {}
    /\ refreshTokens = {}
    /\ passwordResetTokens = {}
    /\ now = 0
    /\ nextId = 0
    /\ last = Call("init", "-", "-")
    /\ retired = {}
    /\ consumer = [c \in Callers |-> Idle]
    /\ deleter = Idle
    /\ sweeper = Idle
    /\ retirer = Idle
    /\ pager = Idle
    /\ createdAt = [id \in RowIds |-> NoTime]
    /\ auditLogs = {}
    /\ env = DefaultEnv
    /\ proc = Running
    /\ inflight = Idle
    /\ script = Idle
    /\ consts = Imported

SeedFrame == UNCHANGED <<sessions, refreshTokens, passwordResetTokens, now, nextId,
                         retired, procs, retirer, pager, createdAt, auditLogs, env,
                         inflight, consts>>

\* beforeExit is emitted only when the script has left nothing to run.
SeedNext ==
    \/ SeedFrame /\ main
    \/ SeedFrame /\ seedCall
    \/ SeedFrame /\ onRejected
    \/ SeedFrame /\ onFinally
    \/ SeedFrame /\ seedDisconnected
    \/ ShutdownFrame /\ script # Idle /\ \E event \in Signals : onSignal(event)
    \/ ShutdownFrame /\ script.pc = "done" /\ onBeforeExit
    \/ ShutdownFrame /\ \E h \in proc.handlers : disconnected(h)
    \/ ShutdownFrame /\ \E h \in proc.handlers : exit(h)
    \/ ShutdownFrame /\ \E h \in proc.handlers : returned(h)
    \/ ShutdownFrame /\ normalExit

SpecSeed == InitSeed /\ [][SeedNext]_vars

\* C24: when the seed process has exited, on the success path or on the
\* failure path, prisma.$disconnect() was called before the exit, by the
\* finally callback or by a listener of client.ts; on the failure path the
\* exit code is 1.
C24_DisconnectBeforeExit ==
    ~proc.alive =>
        /\ script.finally \/ proc.handlers # {}
        /\ script.pc = "exited" => proc.code = ExitFailure


\* ------------------------------------------ soft delete and credentials
\* deleteUser next to the credential rows of the users and the checks that
\* read them.
SoftDeleteNext ==
    \/ Tick /\ UNCHANGED <<issued, retired, apart, procs>>
    \/ UsersFrame /\ UNCHANGED issued
          /\ \E t \in Tokens, u \in UserIds : createSession(t, u, 1)
    \/ UsersFrame /\ UNCHANGED issued
          /\ \E t \in Tokens, u \in UserIds : createRefreshToken(t, u, 1)
    \/ UsersFrame /\ UNCHANGED issued
          /\ \E t \in Tokens, u \in UserIds : createPasswordResetToken(t, u, 1)
    \/ UsersFrame /\ \E id \in AnyUserId : deleteUser(id)
    \/ UsersFrame /\ UNCHANGED issued /\ \E t \in Tokens : isRefreshTokenValid(t)
    \/ UsersFrame /\ UNCHANGED issued /\ \E t \in Tokens : isPasswordResetTokenValid(t)
    \/ UsersFrame /\ UNCHANGED issued /\ \E u \in UserIds : countActiveUserSessions(u)

SpecSoftDelete == Init /\ [][SoftDeleteNext]_vars

\* C25: a deleteUser(id) step changes nothing but the isActive column of
\* that User row: every Session, RefreshToken and PasswordResetToken row is
\* as before, and isRefreshTokenValid, isPasswordResetTokenValid and
\* countActiveUserSessions answer after the step what they answered before.
C25_SoftDeleteKeepsCredentials ==
    [][ \A id \in AnyUserId :
          (last'.op = "deleteUser" /\ last'.key = id)
             => /\ sessions' = sessions
                /\ refreshTokens' = refreshTokens
                /\ passwordResetTokens' = passwordResetTokens
                /\ roles' = roles
                /\ \A u \in users :
                      IF u.id = id THEN [u EXCEPT !.isActive = FALSE] \in users'
                                   ELSE u \in users'
                /\ Cardinality(users') = Cardinality(users)
                /\ \A t \in Tokens :
                      /\ RefreshTokenValid(t)' = RefreshTokenValid(t)
                      /\ PasswordResetTokenValid(t)' = PasswordResetTokenValid(t)
                /\ \A u \in UserIds :
                      Cardinality(ActiveUserSessions(u))' = Cardinality(ActiveUserSessions(u)) ]_vars

\* deleteUser has deactivated a user who holds a valid refresh token and an
\* unexpired session.
C25_Witness ==
    /\ last.op = "deleteUser"
    /\ last.ok
    /\ \E u \in users : u.id = last.key /\ ~u.isActive
    /\ \E r \in refreshTokens : r.userId = last.key /\ RefreshTokenValid(r.token)
    /\ ActiveUserSessions(last.key) # {}


\* -------------------------------------- audit statistics, query by query
\* 24 * 60 * 60 * 1000 ms, in units of the clock
RecentWindow == 1

\* prisma.auditLog.groupBy({ by: [column], _count: { [column]: true } }): one
\* group per value of the column, with the number of its rows.
groupBy(column) ==
    {[by |-> v, _count |-> Cardinality({r \in auditLogs : r[column] = v})]
        : v \in {r[column] : r \in auditLogs}}

\* The rows created in the last 24 hours.
Recent == {r \in auditLogs : createdAt[r.id] >= now - RecentWindow}

statisticsQueries == {"totalLogs", "logsByAction", "logsByEntityType", "recentLogs"}

\* getAuditLogStatistics is called: its four statements are sent together,
\* outside a transaction.
getAuditLogStatistics ==
    /\ inflight = Idle
    /\ inflight' = [pc |-> "statistics", done |-> {}, totalLogs |-> 0,
                    logsByAction |-> {}, logsByEntityType |-> {}, recentLogs |-> 0]
    /\ UNCHANGED <<store, auditLogs, now, nextId, last>>

\* The store runs one of the four statements.
statisticsQuery(q) ==
    /\ inflight.pc = "statistics"
    /\ q \notin inflight.done
    /\ inflight' =
          [inflight EXCEPT
              !.done = @ \cup {q},
              !.totalLogs = IF q = "totalLogs" THEN Cardinality(auditLogs) ELSE @,
              !.logsByAction = IF q = "logsByAction" THEN groupBy("action") ELSE @,
              !.logsByEntityType = IF q = "logsByEntityType" THEN groupBy("entityType")
                                   ELSE @,
              !.recentLogs = IF q = "recentLogs" THEN Cardinality(Recent) ELSE @]
    /\ UNCHANGED <<store, auditLogs, now, nextId, last>>

\* Promise.all resolves; the function returns the four results.
statisticsReturned ==
    /\ inflight.pc = "statistics"
    /\ inflight.done = statisticsQueries
    /\ last' = Call("getAuditLogStatistics", "-",
                    [totalLogs |-> inflight.totalLogs,
                     logsByAction |-> inflight.logsByAction,
                     logsByEntityType |-> inflight.logsByEntityType,
                     recentLogs |-> inflight.recentLogs])
    /\ inflight' = Idle
    /\ UNCHANGED <<store, auditLogs, now, nextId>>

StatisticsNext ==
    \/ Tick /\ UNCHANGED <<issued, retired, apart, procs>>
    \/ OnTable("auditLog") /\ Seeded
          /\ \E a \in AuditActions, t \in EntityTypes :
                createAuditLog(a, t, "u1", "u1", "absent", "absent")
          /\ Stamp
    \/ OnTable("auditLog") /\ UNCHANGED createdAt /\ \E id \in RowIds : deleteAuditLog(id)
    \/ InflightFrame /\ getAuditLogStatistics
    \/ InflightFrame /\ \E q \in statisticsQueries : statisticsQuery(q)
    \/ InflightFrame /\ statisticsReturned

SpecStatistics == Init /\ [][StatisticsNext]_vars

RECURSIVE SumOfCounts(_)
SumOfCounts(groups) ==
    IF groups = {} THEN 0
    ELSE LET g == CHOOSE x \in groups : TRUE
         IN g._count + SumOfCounts(groups \ {g})

\* C26: in what getAuditLogStatistics returns, totalLogs is the sum of the
\* counts of logsByAction and the sum of the counts of logsByEntityType, and
\* recentLogs is at most totalLogs.
C26_StatisticsAddUp ==
    last.op = "getAuditLogStatistics" =>
        /\ last.res.totalLogs = SumOfCounts(last.res.logsByAction)
        /\ last.res.totalLogs = SumOfCounts(last.res.logsByEntityType)
        /\ last.res.recentLogs <= last.res.totalLogs

====
